---------------------------- MODULE Spec2Model ----------------------------
(***************************************************************************)
(* A model of the UniValue JSON library: the UTF-8 filter, the tokenizer   *)
(* (getJsonToken), the explicit-stack parser (UniValue::read, both call    *)
(* surfaces) and the serializer (UniValue::stringify).                     *)
(*                                                                         *)
(* Text is modelled as sequences of bytes (0..255).  A NUL-terminated      *)
(* buffer is a byte sequence whose last byte is 0; a pointer into it is a  *)
(* 1-based index.  The value under construction by the parser is a heap of *)
(* UniValue nodes (a pointer UniValue* is a node index), node 1 being the  *)
(* target of read().                                                       *)
(***************************************************************************)
EXTENDS Integers, Sequences, FiniteSets, TLC

VARIABLES
    raw,          \* the input memory: raw.data()[0 .. raw.size()], NUL-terminated
    size,         \* raw.size() of the std::string overload (bytes before the terminator)
    buffer,       \* the cursor `buffer` of read()/getJsonToken (1-based index into raw)
    lexed,        \* what getJsonToken last returned: [begin, tok, tokenVal, buffer]
    tokenVal,     \* std::string tokenVal
    tok,          \* jtokentype tok
    last_tok,     \* jtokentype last_tok
    expectMask,   \* the set of EXP_ bits that are set
    stack,        \* std::vector<UniValue*> stack (node indices)
    nodes,        \* the UniValue objects in memory (in read(), node 1 is *this)
    pc,           \* position in read(): start, loop, trailing, ret, done; lex, lexdone
    ret,          \* result of read(const char*): a cursor, or NULLPTR
    errpos,       \* *errpos of read(const char*)
    strOk,        \* result of read(const std::string&)
    strErrpos,    \* *errpos of read(const std::string&)
    built,        \* the value built through the API and handed to stringify, or NoValue
    call,         \* the last call made on `built`: [op, arg, before, result, error, what]
    prettyIndent, \* the prettyIndent argument of stringify
    out,          \* the std::string stringify returned
    writer        \* a JSONUTF8StringFilter on its own: [str, is_valid, codepoint, state, surpair]

vars == <<raw, size, buffer, lexed, tokenVal, tok, last_tok, expectMask, stack,
          nodes, pc, ret, errpos, strOk, strErrpos, built, call, prettyIndent, out, writer>>

-----------------------------------------------------------------------------
(* Bytes *)

Ascii ==
    (" " :> 32) @@ ("\"" :> 34) @@ ("+" :> 43) @@ ("," :> 44) @@ ("-" :> 45) @@
    ("." :> 46) @@ ("/" :> 47) @@ ("0" :> 48) @@ ("1" :> 49) @@ ("2" :> 50) @@
    ("3" :> 51) @@ ("4" :> 52) @@ ("5" :> 53) @@ ("6" :> 54) @@ ("7" :> 55) @@
    ("8" :> 56) @@ ("9" :> 57) @@ (":" :> 58) @@ ("@" :> 64) @@ ("A" :> 65) @@
    ("B" :> 66) @@ ("C" :> 67) @@ ("D" :> 68) @@ ("E" :> 69) @@ ("F" :> 70) @@
    ("G" :> 71) @@ ("[" :> 91) @@ ("\\" :> 92) @@ ("]" :> 93) @@ ("a" :> 97) @@
    ("b" :> 98) @@ ("c" :> 99) @@ ("d" :> 100) @@ ("e" :> 101) @@ ("f" :> 102) @@
    ("g" :> 103) @@ ("k" :> 107) @@ ("l" :> 108) @@ ("n" :> 110) @@ ("r" :> 114) @@
    ("s" :> 115) @@ ("t" :> 116) @@ ("u" :> 117) @@ ("x" :> 120) @@ ("{" :> 123) @@
    ("}" :> 125) @@
    ("\\0" :> 0) @@ ("\\b" :> 8) @@ ("\\t" :> 9) @@ ("\\n" :> 10) @@ ("\\f" :> 12) @@
    ("\\r" :> 13) @@ ("\\x01" :> 1) @@ ("\\x1f" :> 31) @@ ("\\x7f" :> 127)

\* The byte of a character literal ('{' is C("{"), '\n' is C("\\n")).
C(c) == Ascii[c]

\* The bytes of a sequence of character literals.
Bytes(cs) == [i \in 1..Len(cs) |-> C(cs[i])]

RECURSIVE Flatten(_)
Flatten(ss) == IF ss = <<>> THEN <<>> ELSE Head(ss) \o Flatten(Tail(ss))

\* All sequences over S of length 0..n.
SeqsUpTo(S, n) == UNION { [1..k -> S] : k \in 0..n }

\* nullptr: no index of a buffer (indices start at 1).
NULLPTR == 0
\* std::string::npos: no offset of a string (offsets start at 0).
NPOS == -1

\* *p for a pointer p into mem; a read outside the buffer has no defined value
\* and is marked by OutOfBounds.
OutOfBounds == -1
At(mem, p) == IF p \in 1..Len(mem) THEN mem[p] ELSE OutOfBounds

\* std::string::assign(first, last)
Slice(mem, first, last) == [i \in 1..(last - first) |-> mem[first + i - 1]]

-----------------------------------------------------------------------------
(* Bit operations on unsigned int *)

RECURSIVE BitOr(_, _)
BitOr(a, b) ==
    IF a = 0 THEN b
    ELSE IF b = 0 THEN a
    ELSE (IF a % 2 = 1 \/ b % 2 = 1 THEN 1 ELSE 0) + 2 * BitOr(a \div 2, b \div 2)

RECURSIVE BitAnd(_, _)
BitAnd(a, b) ==
    IF a = 0 \/ b = 0 THEN 0
    ELSE (IF a % 2 = 1 /\ b % 2 = 1 THEN 1 ELSE 0) + 2 * BitAnd(a \div 2, b \div 2)

Shl(a, k) == a * 2^k
Shr(a, k) == a \div 2^k

-----------------------------------------------------------------------------
(* univalue_read.cpp: helpers *)

json_isdigit(ch) == ch >= C("0") /\ ch <= C("9")

json_isspace(ch) == ch \in {32, 9, 10, 13}

\* hatoui: consumes up to 4 hex characters at p; nullopt on a non-hex character.
RECURSIVE hatoui_loop(_, _, _, _)
hatoui_loop(mem, p, end, val) ==
    IF p = end THEN [ok |-> TRUE, val |-> val, buffer |-> p]
    ELSE LET ch == At(mem, p)
             v  == val * 16
         IN  IF json_isdigit(ch) THEN hatoui_loop(mem, p + 1, end, v + (ch - C("0")))
             ELSE IF ch >= C("a") /\ ch <= C("f")
                  THEN hatoui_loop(mem, p + 1, end, v + (ch - C("a") + 10))
             ELSE IF ch >= C("A") /\ ch <= C("F")
                  THEN hatoui_loop(mem, p + 1, end, v + (ch - C("A") + 10))
             ELSE [ok |-> FALSE, val |-> v, buffer |-> p]

hatoui(mem, p) == hatoui_loop(mem, p, p + 4, 0)

-----------------------------------------------------------------------------
(* JSONUTF8StringFilter *)

\* The filter right after construction on the string s.
NewFilter(s) == [str |-> s, is_valid |-> TRUE, codepoint |-> 0, state |-> 0, surpair |-> 0]

append_codepoint(str, cp) ==
    IF cp <= 127 THEN Append(str, cp)
    ELSE IF cp <= 2047
         THEN str \o << BitOr(192, Shr(cp, 6)), BitOr(128, BitAnd(cp, 63)) >>
    ELSE IF cp <= 65535
         THEN str \o << BitOr(224, Shr(cp, 12)),
                        BitOr(128, BitAnd(Shr(cp, 6), 63)),
                        BitOr(128, BitAnd(cp, 63)) >>
    ELSE IF cp <= 2097151
         THEN str \o << BitOr(240, Shr(cp, 18)),
                        BitOr(128, BitAnd(Shr(cp, 12), 63)),
                        BitOr(128, BitAnd(Shr(cp, 6), 63)),
                        BitOr(128, BitAnd(cp, 63)) >>
    ELSE str

\* The codepoint the filter computes from an open first half and a second half.
SurrogateCodepoint(hi, lo) == BitOr(BitOr(65536, Shl(hi - 55296, 10)), lo - 56320)

push_back_u(w0, cp) ==
    LET w == IF w0.state # 0 THEN [w0 EXCEPT !.is_valid = FALSE] ELSE w0
    IN  IF cp >= 55296 /\ cp < 56320
        THEN IF w.surpair # 0 THEN [w EXCEPT !.is_valid = FALSE]
             ELSE [w EXCEPT !.surpair = cp]
        ELSE IF cp >= 56320 /\ cp < 57344
        THEN IF w.surpair # 0
             THEN [w EXCEPT !.str = append_codepoint(@, SurrogateCodepoint(w.surpair, cp)),
                            !.surpair = 0]
             ELSE [w EXCEPT !.is_valid = FALSE]
        ELSE IF w.surpair # 0 THEN [w EXCEPT !.is_valid = FALSE]
             ELSE [w EXCEPT !.str = append_codepoint(@, cp)]

push_back(w, ch) ==
    IF w.state = 0
    THEN IF ch < 128 THEN [w EXCEPT !.str = Append(@, ch)]
         ELSE IF ch < 192 THEN [w EXCEPT !.is_valid = FALSE]
         ELSE IF ch < 224 THEN [w EXCEPT !.codepoint = Shl(BitAnd(ch, 31), 6), !.state = 6]
         ELSE IF ch < 240 THEN [w EXCEPT !.codepoint = Shl(BitAnd(ch, 15), 12), !.state = 12]
         ELSE IF ch < 248 THEN [w EXCEPT !.codepoint = Shl(BitAnd(ch, 7), 18), !.state = 18]
         ELSE [w EXCEPT !.is_valid = FALSE]
    ELSE LET w1 == IF BitAnd(ch, 192) # 128 THEN [w EXCEPT !.is_valid = FALSE] ELSE w
             st == w.state - 6
             cp == BitOr(w.codepoint, Shl(BitAnd(ch, 63), st))
             w2 == [w1 EXCEPT !.state = st, !.codepoint = cp]
         IN  IF st = 0 THEN push_back_u(w2, cp) ELSE w2

\* A finalize() that does not look at an open surrogate pair.
finalize_IgnoresSurpair(w) == IF w.state # 0 THEN FALSE ELSE w.is_valid

\* finalize(): the returned flag.
finalize(w) == IF w.state # 0 \/ w.surpair # 0 THEN FALSE ELSE w.is_valid


-----------------------------------------------------------------------------
(* getJsonToken *)

jsonTokenIsValue(jtt) ==
    jtt \in {"JTOK_KW_NULL", "JTOK_KW_TRUE", "JTOK_KW_FALSE", "JTOK_NUMBER", "JTOK_STRING"}

\* What one call leaves behind: the returned token type, tokenVal and the cursor.
Token(t, v, p) == [tok |-> t, tokenVal |-> v, buffer |-> p]

\* while (json_isspace(*buffer)) ++buffer;
RECURSIVE SkipSpace(_, _)
SkipSpace(mem, p) == IF json_isspace(At(mem, p)) THEN SkipSpace(mem, p + 1) ELSE p

\* if (*++buffer == c1 && *++buffer == c2 && ...) { ++buffer; return kw; } return JTOK_ERR;
RECURSIVE MatchKeyword(_, _, _, _)
MatchKeyword(mem, p, rest, kw) ==
    IF rest = <<>> THEN Token(kw, <<>>, p + 1)
    ELSE IF At(mem, p + 1) = Head(rest) THEN MatchKeyword(mem, p + 1, Tail(rest), kw)
    ELSE Token("JTOK_ERR", <<>>, p + 1)

\* while (json_isdigit(*buffer)) ++buffer;
RECURSIVE ConsumeDigits(_, _)
ConsumeDigits(mem, p) == IF json_isdigit(At(mem, p)) THEN ConsumeDigits(mem, p + 1) ELSE p

\* A tokenizer without the leading-zero check.
LeadingZeroCheck_Off(mem, firstDigit) == FALSE

\* part 1 of a number: the leading-zero check.
LeadingZeroCheck(mem, firstDigit) ==
    At(mem, firstDigit) = C("0") /\ json_isdigit(At(mem, firstDigit + 1))

\* part 2 of a number: the digit required after '.'.
FracDigitCheck(mem, p) == json_isdigit(At(mem, p))

\* part 3: exp, entered with the cursor after the int and frac parts.
NumberExp(mem, first, p) ==
    IF At(mem, p) = C("e") \/ At(mem, p) = C("E")
    THEN LET q == IF At(mem, p + 1) = C("-") \/ At(mem, p + 1) = C("+") THEN p + 2 ELSE p + 1
         IN  IF ~json_isdigit(At(mem, q)) THEN Token("JTOK_ERR", <<>>, q)
             ELSE LET e == ConsumeDigits(mem, q + 1)
                  IN  Token("JTOK_NUMBER", Slice(mem, first, e), e)
    ELSE Token("JTOK_NUMBER", Slice(mem, first, p), p)

\* case '-': case '0': ... case '9':
LexNumber(mem, first) ==
    LET firstIsMinus == At(mem, first) = C("-")
        firstDigit   == first + (IF firstIsMinus THEN 1 ELSE 0)
    IN  IF LeadingZeroCheck(mem, firstDigit) THEN Token("JTOK_ERR", <<>>, first)
        ELSE IF firstIsMinus /\ ~json_isdigit(At(mem, first + 1))
             THEN Token("JTOK_ERR", <<>>, first + 1)
        ELSE LET p == ConsumeDigits(mem, first + 1)
             IN  IF At(mem, p) = C(".")
                 THEN IF ~FracDigitCheck(mem, p + 1) THEN Token("JTOK_ERR", <<>>, p + 1)
                      ELSE NumberExp(mem, first, ConsumeDigits(mem, p + 2))
                 ELSE NumberExp(mem, first, p)

\* FastPathParseSimpleString: the outcome and where `raw` stops.
RECURSIVE FastPathParseSimpleString(_, _)
FastPathParseSimpleString(mem, p) ==
    LET ch == At(mem, p)
    IN  IF ch = 0 \/ ch = OutOfBounds THEN [res |-> "Error", raw |-> p]
        ELSE IF ch = C("\"") THEN [res |-> "Processed", raw |-> p]
        ELSE IF ch = C("\\") THEN [res |-> "NotFullyProcessed", raw |-> p]
        ELSE IF ch < 32 THEN [res |-> "Error", raw |-> p]
        ELSE IF ch >= 128 THEN [res |-> "NotFullyProcessed", raw |-> p]
        ELSE FastPathParseSimpleString(mem, p + 1)

\* The character a one-letter escape stands for, or NoEscape.
NoEscape == -2
EscapeChar(e) ==
    IF e = C("\"") THEN C("\"")
    ELSE IF e = C("\\") THEN C("\\")
    ELSE IF e = C("/") THEN C("/")
    ELSE IF e = C("b") THEN C("\\b")
    ELSE IF e = C("f") THEN C("\\f")
    ELSE IF e = C("n") THEN C("\\n")
    ELSE IF e = C("r") THEN C("\\r")
    ELSE IF e = C("t") THEN C("\\t")
    ELSE NoEscape

\* A slow path that stops at the NUL only.
IsControl_NulOnly(ch) == ch <= 0

\* A test for control characters that lets the NUL through.
IsControl_NotNul(ch) == ch \in 1..31 \/ ch = OutOfBounds

\* if (static_cast<unsigned char>(*buffer) < 0x20) return JTOK_ERR;
IsControl(ch) == ch < 32

\* The slow path: for (;;) { ... } then finalize().
RECURSIVE SlowPath(_, _, _)
SlowPath(mem, p, w) ==
    LET ch == At(mem, p)
    IN  IF IsControl(ch) THEN Token("JTOK_ERR", w.str, p)
        ELSE IF ch = C("\\")
        THEN LET e == At(mem, p + 1)
             IN  IF EscapeChar(e) # NoEscape
                 THEN SlowPath(mem, p + 2, push_back(w, EscapeChar(e)))
                 ELSE IF e = C("u")
                 THEN LET h == hatoui(mem, p + 2)
                      IN  IF h.ok THEN SlowPath(mem, h.buffer, push_back_u(w, h.val))
                          ELSE Token("JTOK_ERR", w.str, h.buffer)
                 ELSE Token("JTOK_ERR", w.str, p + 1)
        ELSE IF ch = C("\"")
        THEN IF finalize(w) THEN Token("JTOK_STRING", w.str, p + 1)
             ELSE Token("JTOK_ERR", w.str, p + 1)
        ELSE SlowPath(mem, p + 1, push_back(w, ch))

\* constexpr bool tryFastPath = true;
tryFastPath == TRUE

\* A string case that does not hand the bytes the fast path scanned to the slow path.
LexString_PrefixDropped(mem, begin) ==
    LET f == FastPathParseSimpleString(mem, begin)
    IN  IF f.res = "Processed"
        THEN Token("JTOK_STRING", Slice(mem, begin, f.raw), f.raw + 1)
        ELSE IF f.res = "Error" THEN Token("JTOK_ERR", <<>>, f.raw)
        ELSE SlowPath(mem, f.raw, NewFilter(<<>>))

\* case '"': entered with the cursor after the opening quote.
LexString(mem, begin) ==
    IF tryFastPath
    THEN LET f == FastPathParseSimpleString(mem, begin)
         IN  IF f.res = "Processed"
             THEN Token("JTOK_STRING", Slice(mem, begin, f.raw), f.raw + 1)
             ELSE IF f.res = "Error" THEN Token("JTOK_ERR", <<>>, f.raw)
             ELSE SlowPath(mem, f.raw, NewFilter(Slice(mem, begin, f.raw)))
    ELSE SlowPath(mem, begin, NewFilter(<<>>))

getJsonToken(mem, buffer0) ==
    LET p  == SkipSpace(mem, buffer0)
        ch == At(mem, p)
    IN  IF ch = 0 THEN Token("JTOK_NONE", <<>>, p)
        ELSE IF ch = C("{") THEN Token("JTOK_OBJ_OPEN", <<>>, p + 1)
        ELSE IF ch = C("}") THEN Token("JTOK_OBJ_CLOSE", <<>>, p + 1)
        ELSE IF ch = C("[") THEN Token("JTOK_ARR_OPEN", <<>>, p + 1)
        ELSE IF ch = C("]") THEN Token("JTOK_ARR_CLOSE", <<>>, p + 1)
        ELSE IF ch = C(":") THEN Token("JTOK_COLON", <<>>, p + 1)
        ELSE IF ch = C(",") THEN Token("JTOK_COMMA", <<>>, p + 1)
        ELSE IF ch = C("n") THEN MatchKeyword(mem, p, Bytes(<<"u", "l", "l">>), "JTOK_KW_NULL")
        ELSE IF ch = C("t") THEN MatchKeyword(mem, p, Bytes(<<"r", "u", "e">>), "JTOK_KW_TRUE")
        ELSE IF ch = C("f")
             THEN MatchKeyword(mem, p, Bytes(<<"a", "l", "s", "e">>), "JTOK_KW_FALSE")
        ELSE IF ch = C("-") \/ json_isdigit(ch) THEN LexNumber(mem, p)
        ELSE IF ch = C("\"") THEN LexString(mem, p + 1)
        ELSE Token("JTOK_ERR", <<>>, p)


-----------------------------------------------------------------------------
(* The value under construction: UniValue objects addressed by node index *)

MAX_JSON_DEPTH == 512

\* A UniValue holding no children: UniValue(VType) and UniValue(VType, string).
Node(typ, val) == [typ |-> typ, val |-> val, keys |-> <<>>, kids |-> <<>>]

NullNode == Node("VNULL", <<>>)

\* entries.rbegin()->second / *values.rbegin(): node 0 stands for the dereference
\* of rbegin() of an empty vector, which is undefined.
LastKid(n) == IF n.kids = <<>> THEN 0 ELSE n.kids[Len(n.kids)]

\* x.setObject() / x.setArray() for the node x.
SetContainer(ns, x, utyp) == [ns EXCEPT ![x] = Node(utyp, <<>>)]

\* x = std::move(tmpVal) for the node x.
MoveAssign(ns, x, tmpVal) == [ns EXCEPT ![x] = tmpVal]

\* top->u.values.emplace_back(v): the new element is the node Len(ns) + 1.
ArrayEmplaceBack(ns, top, v) ==
    [Append(ns, v) EXCEPT ![top].kids = Append(@, Len(ns) + 1)]

\* top->u.entries.emplace_back(key, UniValue())
ObjectEmplaceBack(ns, top, key) ==
    [Append(ns, NullNode) EXCEPT ![top].kids = Append(@, Len(ns) + 1),
                                 ![top].keys = Append(@, key)]

-----------------------------------------------------------------------------
(* UniValue::read on a NUL-terminated buffer: one iteration of the do-loop *)

isValueOpen(t) == jsonTokenIsValue(t) \/ t = "JTOK_OBJ_OPEN" \/ t = "JTOK_ARR_OPEN"

\* A chain that lets a colon through where none is expected.
ExpectChain_ColonAnywhere(mask, t) ==
    IF "VALUE" \in mask
    THEN [ok |-> isValueOpen(t), mask |-> mask \ {"VALUE"}]
    ELSE IF "ARR_VALUE" \in mask
    THEN [ok |-> isValueOpen(t) \/ t = "JTOK_ARR_CLOSE", mask |-> mask \ {"ARR_VALUE"}]
    ELSE IF "OBJ_NAME" \in mask
    THEN [ok |-> t = "JTOK_OBJ_CLOSE" \/ t = "JTOK_STRING", mask |-> mask]
    ELSE IF "COLON" \in mask
    THEN [ok |-> t = "JTOK_COLON", mask |-> mask \ {"COLON"}]
    ELSE [ok |-> TRUE, mask |-> mask]

\* A chain that lets any token through where a name is expected.
ExpectChain_NoNameTest(mask, t) ==
    IF "VALUE" \in mask
    THEN [ok |-> isValueOpen(t), mask |-> mask \ {"VALUE"}]
    ELSE IF "ARR_VALUE" \in mask
    THEN [ok |-> isValueOpen(t) \/ t = "JTOK_ARR_CLOSE", mask |-> mask \ {"ARR_VALUE"}]
    ELSE IF "OBJ_NAME" \in mask
    THEN [ok |-> TRUE, mask |-> mask]
    ELSE IF "COLON" \in mask
    THEN [ok |-> t = "JTOK_COLON", mask |-> mask \ {"COLON"}]
    ELSE [ok |-> t # "JTOK_COLON", mask |-> mask]

\* The if/else-if chain on expectMask and the EXP_NOT_VALUE test that follows it.
\* Gives [ok, mask]: ok is FALSE where the code returns nullptr.
ExpectChain(mask, t) ==
    IF "VALUE" \in mask
    THEN [ok |-> isValueOpen(t), mask |-> mask \ {"VALUE"}]
    ELSE IF "ARR_VALUE" \in mask
    THEN [ok |-> isValueOpen(t) \/ t = "JTOK_ARR_CLOSE", mask |-> mask \ {"ARR_VALUE"}]
    ELSE IF "OBJ_NAME" \in mask
    THEN [ok |-> t = "JTOK_OBJ_CLOSE" \/ t = "JTOK_STRING", mask |-> mask]
    ELSE IF "COLON" \in mask
    THEN [ok |-> t = "JTOK_COLON", mask |-> mask \ {"COLON"}]
    ELSE [ok |-> t # "JTOK_COLON", mask |-> mask]

ExpectNotValue(mask, t) ==
    IF "NOT_VALUE" \in mask
    THEN [ok |-> ~isValueOpen(t), mask |-> mask \ {"NOT_VALUE"}]
    ELSE [ok |-> TRUE, mask |-> mask]

\* A step that clears the target when it fails.
Step_ClearOnFail(fail, ub, mask, stk, ns, tv) ==
    [fail |-> fail, ub |-> ub, expectMask |-> mask, stack |-> stk,
     nodes |-> IF fail THEN <<NullNode>> ELSE ns, tokenVal |-> tv]

\* The state one case of the switch leaves: fail where it returns nullptr, ub where
\* it dereferences rbegin() of an empty vector.
Step(fail, ub, mask, stk, ns, tv) ==
    [fail |-> fail, ub |-> ub, expectMask |-> mask, stack |-> stk, nodes |-> ns,
     tokenVal |-> tv]

\* A depth test that already fails at MAX_JSON_DEPTH.
DepthExceeded_OffByOne(stk) == Len(stk) >= MAX_JSON_DEPTH

\* if (stack.size() > MAX_JSON_DEPTH) return nullptr;
DepthExceeded(stk) == Len(stk) > MAX_JSON_DEPTH

\* case JTOK_OBJ_OPEN: case JTOK_ARR_OPEN:
CaseOpen(t, mask, stk, ns, tv) ==
    LET utyp == IF t = "JTOK_OBJ_OPEN" THEN "VOBJ" ELSE "VARR"
        exp  == IF utyp = "VOBJ" THEN "OBJ_NAME" ELSE "ARR_VALUE"
    IN  IF stk = <<>>
        THEN LET stk1 == <<1>>
             IN  Step(DepthExceeded(stk1), FALSE, mask \cup {exp}, stk1,
                      SetContainer(ns, 1, utyp), tv)
        ELSE LET top == stk[Len(stk)]
             IN  IF ns[top].typ = "VOBJ"
                 THEN LET value == LastKid(ns[top])
                          stk1  == Append(stk, value)
                      IN  IF value = 0 THEN Step(TRUE, TRUE, mask, stk, ns, tv)
                          ELSE Step(DepthExceeded(stk1), FALSE, mask \cup {exp}, stk1,
                                    SetContainer(ns, value, utyp), tv)
                 ELSE LET stk1 == Append(stk, Len(ns) + 1)
                      IN  Step(DepthExceeded(stk1), FALSE, mask \cup {exp}, stk1,
                               ArrayEmplaceBack(ns, top, Node(utyp, <<>>)), tv)

\* A close that forgets the trailing-comma test.
CloseRejected_NoCommaTest(lt, stk) == stk = <<>>

\* if (!stack.size() || (last_tok == JTOK_COMMA))
CloseRejected(lt, stk) == stk = <<>> \/ lt = "JTOK_COMMA"

\* A close that pops the top frame whatever its kind.
CaseClose_AnyKind(t, lt, mask, stk, ns, tv) ==
    IF CloseRejected(lt, stk) THEN Step(TRUE, FALSE, mask, stk, ns, tv)
    ELSE Step(FALSE, FALSE, (mask \ {"OBJ_NAME"}) \cup {"NOT_VALUE"},
              SubSeq(stk, 1, Len(stk) - 1), ns, tv)

\* case JTOK_OBJ_CLOSE: case JTOK_ARR_CLOSE:
CaseClose(t, lt, mask, stk, ns, tv) ==
    LET utyp == IF t = "JTOK_OBJ_CLOSE" THEN "VOBJ" ELSE "VARR"
    IN  IF CloseRejected(lt, stk) THEN Step(TRUE, FALSE, mask, stk, ns, tv)
        ELSE IF utyp # ns[stk[Len(stk)]].typ THEN Step(TRUE, FALSE, mask, stk, ns, tv)
        ELSE Step(FALSE, FALSE, (mask \ {"OBJ_NAME"}) \cup {"NOT_VALUE"},
                  SubSeq(stk, 1, Len(stk) - 1), ns, tv)

\* case JTOK_COLON:
CaseColon(mask, stk, ns, tv) ==
    IF stk = <<>> THEN Step(TRUE, FALSE, mask, stk, ns, tv)
    ELSE IF ns[stk[Len(stk)]].typ # "VOBJ" THEN Step(TRUE, FALSE, mask, stk, ns, tv)
    ELSE Step(FALSE, FALSE, mask \cup {"VALUE"}, stk, ns, tv)

\* if (!stack.size() || (last_tok == JTOK_COMMA) || (last_tok == JTOK_ARR_OPEN))
CommaRejected(lt, stk) == stk = <<>> \/ lt = "JTOK_COMMA" \/ lt = "JTOK_ARR_OPEN"

\* case JTOK_COMMA:
CaseComma(lt, mask, stk, ns, tv) ==
    IF CommaRejected(lt, stk) THEN Step(TRUE, FALSE, mask, stk, ns, tv)
    ELSE IF ns[stk[Len(stk)]].typ = "VOBJ"
         THEN Step(FALSE, FALSE, mask \cup {"OBJ_NAME"}, stk, ns, tv)
         ELSE Step(FALSE, FALSE, mask \cup {"ARR_VALUE"}, stk, ns, tv)

\* Storing tmpVal: the whole document, the last key's value, or a new array element;
\* EXP_NOT_VALUE is set unless the value was the whole document.
StoreValue(tmpVal, mask, stk, ns, tv) ==
    IF stk = <<>> THEN Step(FALSE, FALSE, mask, stk, MoveAssign(ns, 1, tmpVal), tv)
    ELSE LET top == stk[Len(stk)]
         IN  IF ns[top].typ = "VOBJ"
             THEN IF LastKid(ns[top]) = 0 THEN Step(TRUE, TRUE, mask, stk, ns, tv)
                  ELSE Step(FALSE, FALSE, mask \cup {"NOT_VALUE"}, stk,
                            MoveAssign(ns, LastKid(ns[top]), tmpVal), tv)
             ELSE Step(FALSE, FALSE, mask \cup {"NOT_VALUE"}, stk,
                       ArrayEmplaceBack(ns, top, tmpVal), tv)

\* case JTOK_KW_NULL: case JTOK_KW_TRUE: case JTOK_KW_FALSE:
CaseKeyword(t, mask, stk, ns, tv) ==
    LET tmpVal == IF t = "JTOK_KW_TRUE" THEN Node("VTRUE", <<>>)
                  ELSE IF t = "JTOK_KW_FALSE" THEN Node("VFALSE", <<>>)
                  ELSE NullNode
    IN  StoreValue(tmpVal, mask, stk, ns, tv)

\* A literal stored with its exponent mark in lower case.
NumberLiteral_LowerCase(tv) == [i \in 1..Len(tv) |-> IF tv[i] = 69 THEN 101 ELSE tv[i]]

\* UniValue tmpVal(VNUM, std::move(tokenVal)): the literal the Number holds.
NumberLiteral(tv) == tv

\* case JTOK_NUMBER: (tokenVal is left moved-from: empty)
CaseNumber(mask, stk, ns, tv) ==
    StoreValue(Node("VNUM", NumberLiteral(tv)), mask, stk, ns, <<>>)

\* case JTOK_STRING:
CaseString(mask, stk, ns, tv) ==
    IF "OBJ_NAME" \in mask
    THEN IF stk = <<>> THEN Step(TRUE, TRUE, mask, stk, ns, tv) ELSE
         Step(FALSE, FALSE, ((mask \ {"OBJ_NAME"}) \cup {"COLON"}) \cup {"NOT_VALUE"}, stk,
              ObjectEmplaceBack(ns, stk[Len(stk)], tv), <<>>)
    ELSE StoreValue(Node("VSTR", tv), mask, stk, ns, <<>>)

\* switch (tok)
Switch(t, lt, mask, stk, ns, tv) ==
    IF t \in {"JTOK_OBJ_OPEN", "JTOK_ARR_OPEN"} THEN CaseOpen(t, mask, stk, ns, tv)
    ELSE IF t \in {"JTOK_OBJ_CLOSE", "JTOK_ARR_CLOSE"} THEN CaseClose(t, lt, mask, stk, ns, tv)
    ELSE IF t = "JTOK_COLON" THEN CaseColon(mask, stk, ns, tv)
    ELSE IF t = "JTOK_COMMA" THEN CaseComma(lt, mask, stk, ns, tv)
    ELSE IF t \in {"JTOK_KW_NULL", "JTOK_KW_TRUE", "JTOK_KW_FALSE"}
         THEN CaseKeyword(t, mask, stk, ns, tv)
    ELSE IF t = "JTOK_NUMBER" THEN CaseNumber(mask, stk, ns, tv)
    ELSE IF t = "JTOK_STRING" THEN CaseString(mask, stk, ns, tv)
    ELSE Step(TRUE, FALSE, mask, stk, ns, tv)

\* The body of the do-loop after getJsonToken returned the token t.
Iteration(t, lt, mask, stk, ns) ==
    IF t.tok = "JTOK_NONE" \/ t.tok = "JTOK_ERR"
    THEN Step(TRUE, FALSE, mask, stk, ns, t.tokenVal)
    ELSE LET c1 == ExpectChain(mask, t.tok)
             c2 == ExpectNotValue(c1.mask, t.tok)
         IN  IF ~c1.ok THEN Step(TRUE, FALSE, c1.mask, stk, ns, t.tokenVal)
             ELSE IF ~c2.ok THEN Step(TRUE, FALSE, c2.mask, stk, ns, t.tokenVal)
             ELSE Switch(t.tok, lt, c2.mask, stk, ns, t.tokenVal)


-----------------------------------------------------------------------------
(* UniValue::read: the actions *)

\* No value has been built through the API.
NoValue == [typ |-> "NoValue", val |-> <<>>, keys |-> <<>>, kids |-> <<>>]

\* No call has been made on the value built.
NoCall ==
    [op |-> "none", arg |-> <<>>, before |-> NoValue, result |-> <<>>, error |-> "none",
     what |-> ""]

NoToken == [begin |-> 0, tok |-> "JTOK_NONE", tokenVal |-> <<>>, buffer |-> 0]

\* A read() that starts without setNull().
ReadBegin_NoReset ==
    /\ pc = "start"
    /\ expectMask' = {}
    /\ stack' = <<>>
    /\ tokenVal' = <<>>
    /\ tok' = "JTOK_NONE"
    /\ last_tok' = "JTOK_NONE"
    /\ pc' = "loop"
    /\ UNCHANGED <<writer, raw, size, buffer, lexed, nodes, ret, errpos, strOk, strErrpos, built, call,
                   prettyIndent, out>>

\* setNull(); uint32_t expectMask = 0; std::vector<UniValue*> stack; std::string tokenVal;
\* jtokentype tok = JTOK_NONE; jtokentype last_tok = JTOK_NONE;
ReadBegin ==
    /\ pc = "start"
    /\ nodes' = <<NullNode>>
    /\ expectMask' = {}
    /\ stack' = <<>>
    /\ tokenVal' = <<>>
    /\ tok' = "JTOK_NONE"
    /\ last_tok' = "JTOK_NONE"
    /\ pc' = "loop"
    /\ UNCHANGED <<writer, raw, size, buffer, lexed, ret, errpos, strOk, strErrpos, built, call, prettyIndent, out>>

\* A loop whose getJsonToken does not move the cursor.
ReadLoop_CursorLost ==
    /\ pc = "loop"
    /\ LET t == getJsonToken(raw, buffer)
           r == Iteration(t, tok, expectMask, stack, nodes)
       IN  /\ last_tok' = tok
           /\ tok' = t.tok
           /\ buffer' = buffer
           /\ lexed' = [begin |-> buffer, tok |-> t.tok, tokenVal |-> t.tokenVal,
                        buffer |-> t.buffer]
           /\ expectMask' = r.expectMask
           /\ stack' = r.stack
           /\ nodes' = r.nodes
           /\ tokenVal' = r.tokenVal
           /\ ret' = IF r.fail THEN NULLPTR ELSE ret
           /\ pc' = IF r.ub THEN "ub"
                    ELSE IF r.fail THEN "ret"
                    ELSE IF r.stack = <<>> THEN "trailing"
                    ELSE "loop"
    /\ UNCHANGED <<writer, raw, size, errpos, strOk, strErrpos, built, call, prettyIndent, out>>

\* do { last_tok = tok; tok = getJsonToken(tokenVal, buffer); ... } while (!stack.empty());
ReadLoop ==
    /\ pc = "loop"
    /\ LET t == getJsonToken(raw, buffer)
           r == Iteration(t, tok, expectMask, stack, nodes)
       IN  /\ last_tok' = tok
           /\ tok' = t.tok
           /\ buffer' = t.buffer
           /\ lexed' = [begin |-> buffer, tok |-> t.tok, tokenVal |-> t.tokenVal,
                        buffer |-> t.buffer]
           /\ expectMask' = r.expectMask
           /\ stack' = r.stack
           /\ nodes' = r.nodes
           /\ tokenVal' = r.tokenVal
           /\ ret' = IF r.fail THEN NULLPTR ELSE ret
           /\ pc' = IF r.ub THEN "ub"
                    ELSE IF r.fail THEN "ret"
                    ELSE IF r.stack = <<>> THEN "trailing"
                    ELSE "loop"
    /\ UNCHANGED <<writer, raw, size, errpos, strOk, strErrpos, built, call, prettyIndent, out>>

\* A result that does not look at what follows the document.
TrailingResult_Unchecked(t) == t.buffer

\* if (tok != JTOK_NONE) return nullptr; return buffer;
TrailingResult(t) == IF t.tok # "JTOK_NONE" THEN NULLPTR ELSE t.buffer

\* Check that nothing follows the initial construct (parsed above):
\* tok = getJsonToken(tokenVal, buffer); ...
ReadTrailing ==
    /\ pc = "trailing"
    /\ LET t == getJsonToken(raw, buffer)
       IN  /\ tok' = t.tok
           /\ buffer' = t.buffer
           /\ tokenVal' = t.tokenVal
           /\ lexed' = [begin |-> buffer, tok |-> t.tok, tokenVal |-> t.tokenVal,
                        buffer |-> t.buffer]
           /\ ret' = TrailingResult(t)
    /\ pc' = "ret"
    /\ UNCHANGED <<writer, raw, size, last_tok, expectMask, stack, nodes, errpos, strOk, strErrpos,
                   built, call, prettyIndent, out>>

\* A return that reports the cursor in *errpos on success as well.
ReadReturn_ErrposOnSuccess ==
    /\ pc = "ret"
    /\ errpos' = buffer
    /\ pc' = "strret"
    /\ UNCHANGED <<writer, raw, size, buffer, lexed, tokenVal, tok, last_tok, expectMask, stack, nodes,
                   ret, strOk, strErrpos, built, call, prettyIndent, out>>

\* if (errpos) *errpos = ret == nullptr ? buffer : nullptr; return ret;
ReadReturn ==
    /\ pc = "ret"
    /\ errpos' = IF ret = NULLPTR THEN buffer ELSE NULLPTR
    /\ pc' = "strret"
    /\ UNCHANGED <<writer, raw, size, buffer, lexed, tokenVal, tok, last_tok, expectMask, stack, nodes,
                   ret, strOk, strErrpos, built, call, prettyIndent, out>>

\* A test that takes any successful parse for a complete one.
ConsumedAll_AnySuccess(res, sz) == res # NULLPTR

\* res == raw.data() + raw.size()
ConsumedAll(res, sz) == res # NULLPTR /\ res = sz + 1

\* read(const std::string&, size_type*) after read(raw.data(), &errptr) returned.
\* Offsets are 0-based: the pointer at index i is raw.data() + (i - 1).
ReadStringReturn ==
    /\ pc = "strret"
    /\ strOk' = ConsumedAll(ret, size)
    /\ strErrpos' = IF ConsumedAll(ret, size)
                    THEN (IF errpos # NULLPTR THEN errpos - 1 ELSE NPOS)
                    ELSE IF errpos = NULLPTR /\ ret # NULLPTR THEN ret - 1
                    ELSE IF errpos # NULLPTR THEN errpos - 1
                    ELSE NPOS
    /\ pc' = "done"
    /\ UNCHANGED <<writer, raw, size, buffer, lexed, tokenVal, tok, last_tok, expectMask, stack, nodes,
                   ret, errpos, built, call, prettyIndent, out>>

Next == ReadBegin \/ ReadLoop \/ ReadTrailing \/ ReadReturn \/ ReadStringReturn

-----------------------------------------------------------------------------
(* The states read() can be entered in *)

\* A target that is Null, and one that holds the array [true].
PriorTargets ==
    { <<NullNode>>,
      <<[typ |-> "VARR", val |-> <<>>, keys |-> <<>>, kids |-> <<2>>], Node("VTRUE", <<>>)>> }

\* read(text) on the std::string `text`, the target holding `prior`; indent is the
\* prettyIndent of a stringify that may follow.
EnterReadWith(text, prior, indent) ==
    /\ raw = text \o <<0>>
    /\ size = Len(text)
    /\ buffer = 1
    /\ lexed = NoToken
    /\ tokenVal = <<>>
    /\ tok = "JTOK_NONE"
    /\ last_tok = "JTOK_NONE"
    /\ expectMask = {}
    /\ stack = <<>>
    /\ nodes = prior
    /\ pc = "start"
    /\ ret = NULLPTR
    /\ errpos = NULLPTR
    /\ strOk = FALSE
    /\ strErrpos = NPOS
    /\ built = NoValue
    /\ call = NoCall
    /\ prettyIndent = indent
    /\ out = <<>>
    /\ writer = NewFilter(<<>>)

EnterRead(text, prior) == EnterReadWith(text, prior, 0)

\* The lexemes documents are put together from.
Lexemes ==
    { Bytes(<<"{">>), Bytes(<<"}">>), Bytes(<<"[">>), Bytes(<<"]">>), Bytes(<<":">>),
      Bytes(<<",">>), Bytes(<<"1">>), Bytes(<<"\"", "a", "\"">>) }

MaxToks == 4

\* Documents that continue an open array or object.
Openings ==
    { Bytes(<<"[", "1", ",">>),
      Bytes(<<"{", "\"", "a", "\"", ":">>),
      Bytes(<<"{", "\"", "a", "\"", ":", "1", ",">>) }

\* Longer documents, among them the shapes of the conformance fixtures.
Fixtures ==
    { Bytes(<<"{", "\"", "a", "\"", ":", "1", ",", "\"", "b", "\"", ":", "[", "1", ",", "{", "}", "]", "}">>),
      Bytes(<<"{", "\"", "a", "\"", ":", "1", " ", "\"", "b", "\"", ":", "1", "}">>),
      Bytes(<<"[", "[", "1", "]", ",", "n", "u", "l", "l", ",", "t", "r", "u", "e", ",", "f", "a", "l", "s", "e", "]">>),
      Bytes(<<"[", "1", ",", "{", "\"", "a", "\"", ":", "[", "]", "}", "]", "]">>),
      Bytes(<<"{", "\"", "a", "\"", ":", "{", "\"", "a", "\"", ":", "1", "}", ",", "\"", "a", "\"", ":", "1", "}">>),
      Bytes(<<"{", "\"", "a", "\"", ":", "[", "1", "}", "]">>),
      Bytes(<<"t", "r", "u", "e">>), Bytes(<<"f", "a", "l", "s", "e">>),
      Bytes(<<"n", "u", "l", "l">>), Bytes(<<"n", "u", "l">>) }

Documents ==
    { Flatten(ls) : ls \in SeqsUpTo(Lexemes, MaxToks) }
    \cup { o \o Flatten(ls) : o \in Openings, ls \in SeqsUpTo(Lexemes, MaxToks - 1) }
    \cup Fixtures

Init ==
    \/ \E text \in Documents : EnterRead(text, <<NullNode>>)
    \/ \E text \in Fixtures, prior \in PriorTargets : EnterRead(text, prior)

Spec == Init /\ [][Next]_vars

-----------------------------------------------------------------------------
(* The JSON grammar over token sequences (RFC 8259), by recursive descent *)

LexError == <<"JTOK_ERR">>

\* The token types of the buffer up to its NUL, or LexError.
RECURSIVE TokensFrom(_, _)
TokensFrom(mem, p) ==
    LET t == getJsonToken(mem, p)
    IN  IF t.tok = "JTOK_NONE" THEN <<>>
        ELSE IF t.tok = "JTOK_ERR" THEN LexError
        ELSE LET rest == TokensFrom(mem, t.buffer)
             IN  IF rest = LexError THEN LexError ELSE <<t.tok>> \o rest

TokensOf(mem) == TokensFrom(mem, 1)

TokAt(toks, i) == IF i \in 1..Len(toks) THEN toks[i] ELSE "JTOK_NONE"

\* Each gives the index after the construct that starts at i, or 0 if there is none;
\* d is the number of containers open around it.
RECURSIVE RefValue(_, _, _), RefElements(_, _, _), RefMembers(_, _, _)
RefValue(toks, i, d) ==
    IF jsonTokenIsValue(TokAt(toks, i)) THEN i + 1
    ELSE IF TokAt(toks, i) = "JTOK_ARR_OPEN"
         THEN IF d + 1 > MAX_JSON_DEPTH THEN 0
              ELSE IF TokAt(toks, i + 1) = "JTOK_ARR_CLOSE" THEN i + 2
              ELSE RefElements(toks, i + 1, d + 1)
    ELSE IF TokAt(toks, i) = "JTOK_OBJ_OPEN"
         THEN IF d + 1 > MAX_JSON_DEPTH THEN 0
              ELSE IF TokAt(toks, i + 1) = "JTOK_OBJ_CLOSE" THEN i + 2
              ELSE RefMembers(toks, i + 1, d + 1)
    ELSE 0

RefElements(toks, i, d) ==
    LET j == RefValue(toks, i, d)
    IN  IF j = 0 THEN 0
        ELSE IF TokAt(toks, j) = "JTOK_COMMA" THEN RefElements(toks, j + 1, d)
        ELSE IF TokAt(toks, j) = "JTOK_ARR_CLOSE" THEN j + 1
        ELSE 0

RefMembers(toks, i, d) ==
    IF TokAt(toks, i) # "JTOK_STRING" \/ TokAt(toks, i + 1) # "JTOK_COLON" THEN 0
    ELSE LET j == RefValue(toks, i + 2, d)
         IN  IF j = 0 THEN 0
             ELSE IF TokAt(toks, j) = "JTOK_COMMA" THEN RefMembers(toks, j + 1, d)
             ELSE IF TokAt(toks, j) = "JTOK_OBJ_CLOSE" THEN j + 1
             ELSE 0

\* Exactly one JSON value, then end of input.
IsJsonDocument(toks) == RefValue(toks, 1, 0) = Len(toks) + 1

\* read(const char*) has returned.
Returned == pc \in {"strret", "done"}

\* C1: for every NUL-terminated input whose tokens all lex without error, read
\* succeeds if and only if the token sequence is exactly one JSON value (scalar,
\* object of key : value pairs, array of values, single commas, matching delimiters,
\* depth at most 512) followed by end of input.
C1_ReadIffOneJsonValue ==
    (Returned /\ TokensOf(raw) # LexError)
        => ((ret # NULLPTR) <=> IsJsonDocument(TokensOf(raw)))

\* C1 happens: a nested document was accepted, and a well-lexed one was rejected.
C1_Witness ==
    /\ Returned
    /\ ret # NULLPTR
    /\ Len(TokensOf(raw)) > 12
    /\ \E x \in 1..Len(nodes) : nodes[x].typ = "VOBJ" /\ Len(nodes[x].kids) = 2

-----------------------------------------------------------------------------
(* Deeply nested documents *)

\* n copies of unit, one after the other.
Repeat(unit, n) == [i \in 1..(n * Len(unit)) |-> unit[((i - 1) % Len(unit)) + 1]]

\* Nesting depths from MAX_JSON_DEPTH - DepthSlack to MAX_JSON_DEPTH + DepthSlack.
DepthSlack == 1

\* The whitespace put after every token.
Paddings == { <<>>, <<32, 10>> }

\* What opens and closes one level (or two), and how many levels it is.
Nestings ==
    { [open |-> Bytes(<<"[">>), close |-> Bytes(<<"]">>), levels |-> 1],
      [open |-> Bytes(<<"{", "\"", "a", "\"", ":">>), close |-> Bytes(<<"}">>), levels |-> 1] }

\* The innermost value, and how many levels it adds.
Innermost ==
    { [text |-> Bytes(<<"1">>), levels |-> 0],
      [text |-> Bytes(<<"[", "]">>), levels |-> 1],
      [text |-> Bytes(<<"{", "}">>), levels |-> 1] }

\* unit with the padding pad after each of its tokens (its tokens are single
\* characters, but for the key "a").
RECURSIVE Padded(_, _)
Padded(unit, pad) ==
    IF unit = <<>> THEN <<>>
    ELSE IF Head(unit) = C("\"")
         THEN SubSeq(unit, 1, 3) \o pad \o Padded(SubSeq(unit, 4, Len(unit)), pad)
         ELSE <<Head(unit)>> \o pad \o Padded(Tail(unit), pad)

DeepDocument(nest, n, inner, pad) ==
    Repeat(Padded(nest.open, pad), n) \o Padded(inner.text, pad)
        \o Repeat(Padded(nest.close, pad), n)

DeepDocuments ==
    { DeepDocument(nest, (d - inner.levels) \div nest.levels, inner, pad) :
        nest \in Nestings, inner \in Innermost, pad \in Paddings,
        d \in (MAX_JSON_DEPTH - DepthSlack)..(MAX_JSON_DEPTH + DepthSlack) }

InitDepth == \E text \in DeepDocuments : EnterRead(text, <<NullNode>>)

SpecDepth == InitDepth /\ [][Next]_vars

\* The deepest nesting of brackets and braces in the buffer (none of these
\* documents has one inside a string): the net and the peak level of mem[lo..hi],
\* from those of its halves.
RECURSIVE Levels(_, _, _)
Levels(mem, lo, hi) ==
    IF lo = hi
    THEN IF mem[lo] \in {C("["), C("{")} THEN [net |-> 1, peak |-> 1]
         ELSE IF mem[lo] \in {C("]"), C("}")} THEN [net |-> -1, peak |-> 0]
         ELSE [net |-> 0, peak |-> 0]
    ELSE LET mid == (lo + hi) \div 2
             l   == Levels(mem, lo, mid)
             r   == Levels(mem, mid + 1, hi)
         IN  [net  |-> l.net + r.net,
              peak |-> IF l.net + r.peak > l.peak THEN l.net + r.peak ELSE l.peak]

NestingDepth(mem) == Levels(mem, 1, Len(mem)).peak

\* C2: nesting of arrays and objects is accepted up to 512 levels and rejected
\* beyond, however whitespace is placed between the tokens.
C2_DepthLimit ==
    Returned => ((ret # NULLPTR) <=> NestingDepth(raw) <= MAX_JSON_DEPTH)

\* C2 happens: a padded document with exactly 512 levels was accepted.
C2_Witness ==
    /\ pc = "done"
    /\ strOk
    /\ NestingDepth(raw) = MAX_JSON_DEPTH
    /\ \E i \in 1..Len(raw) : raw[i] = 10

-----------------------------------------------------------------------------
(* Documents with something before or after the top-level value *)

WhitespaceBytes == {32, 9, 10, 13}

\* Whitespace of up to MaxPad bytes goes before and after the value.
MaxPad == 1

TopValues ==
    { Bytes(<<"{", "}">>), Bytes(<<"[", "]">>), Bytes(<<"1">>), Bytes(<<"\"", "a", "\"">>),
      Bytes(<<"t", "r", "u", "e">>), Bytes(<<"[", "1", "]">>),
      Bytes(<<"{", "\"", "a", "\"", ":", "1", "}">>) }

\* What follows the value and its whitespace: nothing, a further token, or a NUL
\* byte and more.
Followers ==
    { <<>>, Bytes(<<"g">>), Bytes(<<"{", "}">>), Bytes(<<"[", "]">>), Bytes(<<"4", "2">>),
      Bytes(<<",">>), Bytes(<<"]">>), Bytes(<<"\"", "a", "\"">>), Bytes(<<"n", "u", "l", "l">>),
      <<0>>, <<0, 32>>, <<0, 103>>, <<0, 91, 93>> }

TailDocuments ==
    { lead \o v \o trail \o f :
        lead \in SeqsUpTo(WhitespaceBytes, MaxPad), v \in TopValues,
        trail \in SeqsUpTo(WhitespaceBytes, MaxPad), f \in Followers }
    \cup { <<32, 0>>, <<0>>, <<0, 49>>, <<91, 0, 93>> }

InitTail == \E text \in TailDocuments : EnterRead(text, <<NullNode>>)

SpecTail == InitTail /\ [][Next]_vars

\* From p to the NUL that ends the buffer there is nothing but JSON whitespace.
OnlyWhitespaceFrom(mem, p) ==
    \E e \in p..Len(mem) :
        /\ mem[e] = 0
        /\ \A i \in p..(e - 1) : mem[i] \in WhitespaceBytes

\* The text in the buffer without the whitespace at its two ends.
Stripped(mem) ==
    LET text == SubSeq(mem, 1, Len(mem) - 1)
        ink  == { i \in 1..Len(text) : text[i] \notin WhitespaceBytes }
    IN  IF ink = {} THEN <<>>
        ELSE SubSeq(text, CHOOSE i \in ink : \A j \in ink : i <= j,
                          CHOOSE i \in ink : \A j \in ink : i >= j)

\* C3: once the top-level value is complete, read fails if any further token
\* follows it and succeeds if only JSON whitespace (space, tab, LF, CR) follows;
\* a value with only whitespace before and after it is accepted.
C3_NothingTrailing ==
    /\ [][pc = "trailing" => ((ret' # NULLPTR) <=> OnlyWhitespaceFrom(raw, buffer))]_vars
    /\ []((Returned /\ Stripped(raw) \in TopValues) => ret # NULLPTR)

\* C3 happens: "[]" was complete and the "{" after it made read fail.
C3_Witness ==
    /\ pc = "done"
    /\ ret = NULLPTR
    /\ stack = <<>>
    /\ nodes[1].typ = "VARR"
    /\ lexed.tok = "JTOK_OBJ_OPEN"
    /\ raw[1] \in WhitespaceBytes

\* The std::string handed to read() has a NUL byte before its end.
HasEmbeddedNul == \E i \in 1..size : raw[i] = 0

\* C4: read(const std::string&) returns false for every string with a NUL byte
\* before its end, and returns true only when the NUL-terminated parse consumed
\* exactly raw.size() bytes.
C4_EmbeddedNulRejected ==
    pc = "done" => /\ HasEmbeddedNul => ~strOk
                   /\ strOk => ret = size + 1

\* C4 happens: the bytes before the NUL are a complete document, which the
\* NUL-terminated parse accepted, and the string was rejected.
C4_Witness ==
    /\ pc = "done"
    /\ HasEmbeddedNul
    /\ ret # NULLPTR
    /\ nodes[1].typ = "VOBJ"
    /\ ~strOk

-----------------------------------------------------------------------------
(* UniValue as a value: [typ, val, keys, kids], kids being values themselves *)

VTypes == {"VNULL", "VFALSE", "VTRUE", "VOBJ", "VARR", "VNUM", "VSTR"}

\* The value the node x of a heap stands for.
RECURSIVE ToValue(_, _)
ToValue(ns, x) ==
    [typ |-> ns[x].typ, val |-> ns[x].val, keys |-> ns[x].keys,
     kids |-> [k \in 1..Len(ns[x].kids) |-> ToValue(ns, ns[x].kids[k])]]

\* An operator== that compares the entries of two objects as sets.
UniValueEq_Unordered(a, b) ==
    IF a.typ = "VOBJ" /\ b.typ = "VOBJ"
    THEN /\ Len(a.kids) = Len(b.kids)
         /\ { <<a.keys[k], a.kids[k]>> : k \in 1..Len(a.kids) }
               = { <<b.keys[k], b.kids[k]>> : k \in 1..Len(b.kids) }
    ELSE a = b

\* bool UniValue::operator==(const UniValue& other) const
RECURSIVE UniValueEq(_, _)
UniValueEq(a, b) ==
    IF a.typ # b.typ THEN FALSE
    ELSE IF a.typ = "VOBJ"
         THEN /\ Len(a.kids) = Len(b.kids)
              /\ \A k \in 1..Len(a.kids) :
                    a.keys[k] = b.keys[k] /\ UniValueEq(a.kids[k], b.kids[k])
    ELSE IF a.typ = "VARR"
         THEN /\ Len(a.kids) = Len(b.kids)
              /\ \A k \in 1..Len(a.kids) : UniValueEq(a.kids[k], b.kids[k])
    ELSE IF a.typ \in {"VNUM", "VSTR"} THEN a.val = b.val
    ELSE TRUE

-----------------------------------------------------------------------------
(* univalue_write.cpp *)

HexDigit(d) == IF d < 10 THEN C("0") + d ELSE C("a") + (d - 10)

\* An escape table that has no entry for DEL.
escapes_NoDel(ch) ==
    IF ch = 8 THEN Bytes(<<"\\", "b">>)
    ELSE IF ch = 9 THEN Bytes(<<"\\", "t">>)
    ELSE IF ch = 10 THEN Bytes(<<"\\", "n">>)
    ELSE IF ch = 12 THEN Bytes(<<"\\", "f">>)
    ELSE IF ch = 13 THEN Bytes(<<"\\", "r">>)
    ELSE IF ch = 34 THEN Bytes(<<"\\", "\"">>)
    ELSE IF ch = 92 THEN Bytes(<<"\\", "\\">>)
    ELSE IF ch < 32
         THEN Bytes(<<"\\", "u", "0", "0">>) \o <<HexDigit(ch \div 16), HexDigit(ch % 16)>>
    ELSE <<>>

\* escapes[ch]: the escape string of the byte; the empty sequence stands for nullptr.
escapes(ch) ==
    IF ch = 8 THEN Bytes(<<"\\", "b">>)
    ELSE IF ch = 9 THEN Bytes(<<"\\", "t">>)
    ELSE IF ch = 10 THEN Bytes(<<"\\", "n">>)
    ELSE IF ch = 12 THEN Bytes(<<"\\", "f">>)
    ELSE IF ch = 13 THEN Bytes(<<"\\", "r">>)
    ELSE IF ch = 34 THEN Bytes(<<"\\", "\"">>)
    ELSE IF ch = 92 THEN Bytes(<<"\\", "\\">>)
    ELSE IF ch < 32 \/ ch = 127
         THEN Bytes(<<"\\", "u", "0", "0">>) \o <<HexDigit(ch \div 16), HexDigit(ch % 16)>>
    ELSE <<>>

\* An escaping that writes every byte as it is.
jsonEscape_Raw(inS) == inS

RECURSIVE jsonEscape(_)
jsonEscape(inS) ==
    IF inS = <<>> THEN <<>>
    ELSE (IF escapes(Head(inS)) # <<>> THEN escapes(Head(inS)) ELSE <<Head(inS)>>)
            \o jsonEscape(Tail(inS))

\* ss.put(' ', n)
Spaces(n) == [i \in 1..n |-> 32]

\* A new line that is not indented.
startNewLine_NoIndent(prettyIndent0, indentLevel) ==
    IF prettyIndent0 # 0 THEN <<10>> ELSE <<>>

startNewLine(prettyIndent0, indentLevel) ==
    IF prettyIndent0 # 0 THEN <<10>> \o Spaces(indentLevel) ELSE <<>>

\* stringify(Stream&, std::string_view, ...)
StringifyString(string) == <<34>> \o jsonEscape(string) \o <<34>>

RECURSIVE Stringify(_, _, _), StringifyEntries(_, _, _, _, _), StringifyValues(_, _, _, _)

\* The loop of stringify(Stream&, const Object&, ...) from the entry k on.
StringifyEntries(keys, kids, k, prettyIndent0, internalIndentLevel) ==
    startNewLine(prettyIndent0, internalIndentLevel)
        \o <<34>> \o jsonEscape(keys[k]) \o <<34, 58>>
        \o (IF prettyIndent0 # 0 THEN <<32>> ELSE <<>>)
        \o Stringify(kids[k], prettyIndent0, internalIndentLevel)
        \o (IF k = Len(kids) THEN <<>>
            ELSE <<44>> \o StringifyEntries(keys, kids, k + 1, prettyIndent0, internalIndentLevel))

\* The loop of stringify(Stream&, const Array&, ...) from the element k on.
StringifyValues(kids, k, prettyIndent0, internalIndentLevel) ==
    startNewLine(prettyIndent0, internalIndentLevel)
        \o Stringify(kids[k], prettyIndent0, internalIndentLevel)
        \o (IF k = Len(kids) THEN <<>>
            ELSE <<44>> \o StringifyValues(kids, k + 1, prettyIndent0, internalIndentLevel))

StringifyObject(keys, kids, prettyIndent0, indentLevel) ==
    <<123>>
        \o (IF kids # <<>>
            THEN StringifyEntries(keys, kids, 1, prettyIndent0, indentLevel + prettyIndent0)
            ELSE <<>>)
        \o startNewLine(prettyIndent0, indentLevel) \o <<125>>

StringifyArray(kids, prettyIndent0, indentLevel) ==
    <<91>>
        \o (IF kids # <<>>
            THEN StringifyValues(kids, 1, prettyIndent0, indentLevel + prettyIndent0)
            ELSE <<>>)
        \o startNewLine(prettyIndent0, indentLevel) \o <<93>>

\* stringify(Stream&, const UniValue&, prettyIndent, indentLevel)
Stringify(value, prettyIndent0, indentLevel) ==
    IF value.typ = "VNULL" THEN Bytes(<<"n", "u", "l", "l">>)
    ELSE IF value.typ = "VFALSE" THEN Bytes(<<"f", "a", "l", "s", "e">>)
    ELSE IF value.typ = "VTRUE" THEN Bytes(<<"t", "r", "u", "e">>)
    ELSE IF value.typ = "VOBJ"
         THEN StringifyObject(value.keys, value.kids, prettyIndent0, indentLevel)
    ELSE IF value.typ = "VARR" THEN StringifyArray(value.kids, prettyIndent0, indentLevel)
    ELSE IF value.typ = "VNUM" THEN value.val
    ELSE StringifyString(value.val)

-----------------------------------------------------------------------------
(* Building values through the API *)

\* explicit UniValue(VType initialType): construct() leaves val, entries or values empty.
UniValueOfType(initialType) == Node(initialType, <<>>)

\* UniValue(VType initialType, std::string_view initialStr): construct(string) keeps
\* the string for VNUM and VSTR and forces every other type to VNULL.
UniValueOfTypeStr(initialType, initialStr) ==
    IF initialType \in {"VNUM", "VSTR"} THEN Node(initialType, initialStr) ELSE NullNode

\* UniValue(bool val_) and operator=(bool val_)
AssignBool(val_) == IF val_ THEN Node("VTRUE", <<>>) ELSE Node("VFALSE", <<>>)

\* UniValue(std::string_view val_) and operator=(std::string_view val_)
AssignString(val_) == Node("VSTR", val_)

RECURSIVE DecimalDigits(_)
DecimalDigits(n) ==
    IF n < 10 THEN <<C("0") + n>> ELSE Append(DecimalDigits(n \div 10), C("0") + (n % 10))

\* snprintf(buf, bufSize, "%" PRId64, val_): the text it would write in full.
FormatInt(val_) == IF val_ < 0 THEN <<C("-")>> \o DecimalDigits(-val_) ELSE DecimalDigits(val_)

bufSize == 21

\* setInt64(val_) and the integer assignments and constructors.
setInt64(val_) ==
    LET n == Len(FormatInt(val_))
    IN  IF n <= 0 \/ n >= bufSize THEN NullNode ELSE Node("VNUM", FormatInt(val_))

\* A double: its class and, if finite, its sign, its significant decimal digits
\* (at most DoublePrecision of them, none for zero) and the power of ten of the first.
Double(neg, digits, exp) == [class |-> "finite", neg |-> neg, digits |-> digits, exp |-> exp]
NotFinite(class) == [class |-> class, neg |-> FALSE, digits |-> <<>>, exp |-> 0]

DoublePrecision == 16

DigitChars(ds) == [i \in 1..Len(ds) |-> C("0") + ds[i]]

\* oss << std::setprecision(16) << val_ in the classic locale: the %.16g form.
FormatDouble(d) ==
    LET sign == IF d.neg THEN <<C("-")>> ELSE <<>>
        n    == Len(d.digits)
        mag  == IF d.exp < 0 THEN -d.exp ELSE d.exp
    IN  IF n = 0 THEN sign \o <<C("0")>>
        ELSE IF d.exp < -4 \/ d.exp >= DoublePrecision
        THEN sign \o <<C("0") + d.digits[1]>>
                \o (IF n > 1 THEN <<C(".")>> \o DigitChars(SubSeq(d.digits, 2, n)) ELSE <<>>)
                \o <<C("e"), IF d.exp < 0 THEN C("-") ELSE C("+")>>
                \o (IF mag < 10 THEN <<C("0")>> ELSE <<>>) \o DecimalDigits(mag)
        ELSE IF d.exp >= 0
        THEN sign \o [i \in 1..(d.exp + 1) |-> IF i <= n THEN C("0") + d.digits[i] ELSE C("0")]
                \o (IF n > d.exp + 1
                    THEN <<C(".")>> \o DigitChars(SubSeq(d.digits, d.exp + 2, n))
                    ELSE <<>>)
        ELSE sign \o <<C("0"), C(".")>> \o [i \in 1..(-d.exp - 1) |-> C("0")]
                \o DigitChars(d.digits)

\* An assignment that writes whatever the stream prints for the double.
AssignDouble_Unchecked(val_) ==
    IF val_.class # "finite" THEN Node("VNUM", Bytes(<<"n", "a", "n">>))
    ELSE Node("VNUM", FormatDouble(val_))

\* An assignment that tests for NaN only.
AssignDouble_NanOnly(val_) ==
    IF val_.class = "nan" THEN NullNode ELSE Node("VNUM", FormatDouble(val_))

\* operator=(double val_) and UniValue(double val_)
AssignDouble(val_) ==
    IF val_.class # "finite" THEN NullNode ELSE Node("VNUM", FormatDouble(val_))

\* A validation that looks at the first token only.
validateAndStripNumStr_FirstTokenOnly(s) ==
    LET t1 == getJsonToken(s, 1)
    IN  IF t1.tok = "JTOK_NUMBER"
        THEN [ok |-> TRUE, str |-> t1.tokenVal]
        ELSE [ok |-> FALSE, str |-> <<>>]

\* validateAndStripNumStr(s): s is NUL-terminated.
validateAndStripNumStr(s) ==
    LET t1 == getJsonToken(s, 1)
    IN  IF t1.tok = "JTOK_NUMBER" /\ getJsonToken(s, t1.buffer).tok = "JTOK_NONE"
        THEN [ok |-> TRUE, str |-> t1.tokenVal]
        ELSE [ok |-> FALSE, str |-> <<>>]

\* A setNumStr that assigns null on failure.
setNumStr_NullOnFailure(v, val_) ==
    LET optStr == validateAndStripNumStr(val_ \o <<0>>)
    IN  IF optStr.ok THEN Node("VNUM", optStr.str) ELSE NullNode

\* A setNumStr that stores the text without validating it.
setNumStr_Unvalidated(v, val_) == Node("VNUM", val_)

\* v.setNumStr(val_)
setNumStr(v, val_) ==
    LET optStr == validateAndStripNumStr(val_ \o <<0>>)
    IN  IF optStr.ok THEN Node("VNUM", optStr.str) ELSE v

\* Array::push_back / emplace_back
ArrayPushBack(a, v) == [a EXCEPT !.kids = Append(@, v)]

\* Object::push_back / emplace_back
ObjectPushBack(o, key, v) == [o EXCEPT !.keys = Append(@, key), !.kids = Append(@, v)]

\* An array and an object grown from empty by appending, in order.
RECURSIVE ArrayOf(_), ObjectOf(_)
ArrayOf(vs) ==
    IF vs = <<>> THEN UniValueOfType("VARR")
    ELSE ArrayPushBack(ArrayOf(SubSeq(vs, 1, Len(vs) - 1)), vs[Len(vs)])
ObjectOf(es) ==
    IF es = <<>> THEN UniValueOfType("VOBJ")
    ELSE ObjectPushBack(ObjectOf(SubSeq(es, 1, Len(es) - 1)), es[Len(es)][1], es[Len(es)][2])

-----------------------------------------------------------------------------
(* The values built, and the documents with numbers in them *)

Ints == {0, -7, 1234}

Doubles ==
    { Double(FALSE, <<>>, 0), Double(TRUE, <<>>, 0), Double(FALSE, <<1, 2, 3, 4>>, 0),
      Double(TRUE, <<2, 5>>, 1), Double(FALSE, <<1>>, 20), Double(FALSE, <<1, 5>>, -5),
      Double(FALSE, <<1, 2, 5>>, -2), NotFinite("nan"), NotFinite("inf") }

\* The texts handed to setNumStr and to the unchecked UniValue(VNUM, text).
NumStrs ==
    { Bytes(<<" ", "-", "6", "8", "9", " ">>), Bytes(<<"1", ".", "1", "0">>),
      Bytes(<<"k">>), Bytes(<<"1", " ", "1">>), <<>> }

\* The texts of strings: plain, in need of escapes, UTF-8 of U+00E9, U+20AC and
\* U+1D161, and four that are not UTF-8 (a lone continuation byte, an encoded
\* surrogate, an overlong NUL, a sequence cut short).
Strs ==
    { <<>>, Bytes(<<"a">>), Bytes(<<"a", "\"", "\\", "/">>), <<8, 9, 10, 12, 13>>,
      <<0, 1, 31, 127>>, <<195, 169>>, <<226, 130, 172>>, <<240, 157, 133, 161>>,
      <<128>>, <<237, 160, 128>>, <<192, 128>>, <<226, 130>> }

BuiltScalars ==
    { UniValueOfType(t) : t \in VTypes }
    \cup { UniValueOfTypeStr(t, str) : t \in {"VNULL", "VNUM", "VSTR"}, str \in NumStrs }
    \cup { AssignBool(b) : b \in BOOLEAN }
    \cup { setInt64(n) : n \in Ints }
    \cup { AssignDouble(d) : d \in Doubles }
    \cup { setNumStr(NullNode, str) : str \in NumStrs }
    \cup { AssignString(str) : str \in Strs }

\* What is appended to the containers built.
Elements ==
    { NullNode, setInt64(1234), AssignString(Bytes(<<"a", "\"", "\\", "/">>)),
      UniValueOfType("VNUM"), AssignString(<<128>>),
      ArrayOf(<<UniValueOfType("VOBJ")>>),
      ObjectOf(<< <<Bytes(<<"a">>), UniValueOfType("VARR")>> >>),
      ArrayOf(<<AssignBool(TRUE)>>) }

Keys == { Bytes(<<"a">>), <<107, 34, 10>> }

\* Containers hold up to MaxElems elements.
MaxElems == 2

\* prettyIndent is 0..MaxIndent.
MaxIndent == 2

BuiltValues ==
    BuiltScalars
    \cup { ArrayOf(vs) : vs \in SeqsUpTo(Elements, MaxElems) }
    \cup { ObjectOf(es) : es \in SeqsUpTo(Keys \X Elements, MaxElems) }

\* The characters number texts are made of, and how many of them.
NumberChars == { C("-"), C("0"), C("1"), C("."), C("e"), C("+") }
MaxNumLen == 4

NumberTexts ==
    SeqsUpTo(NumberChars, MaxNumLen)
    \cup { Bytes(<<"1", ".", "1", "0", "0", "0", "0", "0", "0", "0">>),
           Bytes(<<"-", "1", "2", ".", "5", "E", "-", "0", "7">>),
           Bytes(<<"1", "E", "+", "9">>), Bytes(<<"0", "E", "0">>), Bytes(<<"1", "E">>) }

\* A number text as the value of a key and as an element of an array.
NumberDocuments ==
    { Bytes(<<"{", "\"", "a", "\"", ":">>) \o t \o Bytes(<<"}">>) : t \in NumberTexts }
    \cup { Bytes(<<"[", "1", ",">>) \o t \o Bytes(<<",", "{", "}", "]">>) : t \in NumberTexts }

HasBuilt == built.typ # "NoValue"

\* std::string s = UniValue::stringify(v, prettyIndent); UniValue r; then r.read(s)
StringifyBuilt ==
    /\ pc = "built"
    /\ out' = Stringify(built, prettyIndent, 0)
    /\ raw' = Append(out', 0)
    /\ size' = Len(out')
    /\ pc' = "start"
    /\ UNCHANGED <<writer, buffer, lexed, tokenVal, tok, last_tok, expectMask, stack, nodes, ret,
                   errpos, strOk, strErrpos, built, call, prettyIndent>>

\* if (v.read(raw)) out = UniValue::stringify(v, prettyIndent);
StringifyRead ==
    /\ pc = "done"
    /\ ~HasBuilt
    /\ strOk
    /\ out' = Stringify(ToValue(nodes, 1), prettyIndent, 0)
    /\ pc' = "written"
    /\ UNCHANGED <<writer, raw, size, buffer, lexed, tokenVal, tok, last_tok, expectMask, stack, nodes,
                   ret, errpos, strOk, strErrpos, built, call, prettyIndent>>

NextReadWrite == StringifyBuilt \/ StringifyRead \/ Next

\* A value has been built and is about to be serialized.
EnterStringify(v, indent) ==
    /\ raw = <<0>>
    /\ size = 0
    /\ buffer = 1
    /\ lexed = NoToken
    /\ tokenVal = <<>>
    /\ tok = "JTOK_NONE"
    /\ last_tok = "JTOK_NONE"
    /\ expectMask = {}
    /\ stack = <<>>
    /\ nodes = <<NullNode>>
    /\ pc = "built"
    /\ ret = NULLPTR
    /\ errpos = NULLPTR
    /\ strOk = FALSE
    /\ strErrpos = NPOS
    /\ built = v
    /\ call = NoCall
    /\ prettyIndent = indent
    /\ out = <<>>
    /\ writer = NewFilter(<<>>)

InitReadWrite ==
    \/ \E v \in BuiltValues, indent \in 0..MaxIndent : EnterStringify(v, indent)
    \/ \E text \in NumberDocuments, indent \in {0, MaxIndent} :
          EnterReadWith(text, <<NullNode>>, indent)

SpecReadWrite == InitReadWrite /\ [][NextReadWrite]_vars

-----------------------------------------------------------------------------
(* What JSON numbers and UTF-8 are: RFC 8259 section 6, RFC 3629 section 4 *)

DigitBytes == 48..57

AllDigits(t) == \A i \in 1..Len(t) : t[i] \in DigitBytes

\* int = zero / ( digit1-9 *DIGIT )
IsInt(t) == t # <<>> /\ AllDigits(t) /\ (t[1] = 48 => Len(t) = 1)

\* frac = decimal-point 1*DIGIT
IsFrac(t) == Len(t) >= 2 /\ t[1] = 46 /\ AllDigits(Tail(t))

\* exp = e [ minus / plus ] 1*DIGIT
IsExp(t) ==
    /\ Len(t) >= 2
    /\ t[1] \in {101, 69}
    /\ LET ds == IF t[2] \in {43, 45} THEN SubSeq(t, 3, Len(t)) ELSE Tail(t)
       IN  ds # <<>> /\ AllDigits(ds)

\* number = [ minus ] int [ frac ] [ exp ]
IsJsonNumber(t) ==
    \E a \in 0..1, b \in 0..Len(t), c \in 0..Len(t) :
        /\ a <= b /\ b <= c
        /\ a = 1 => (t # <<>> /\ t[1] = 45)
        /\ IsInt(SubSeq(t, a + 1, b))
        /\ b = c \/ IsFrac(SubSeq(t, b + 1, c))
        /\ c = Len(t) \/ IsExp(SubSeq(t, c + 1, Len(t)))

IsTail(b) == b \in 128..191

\* UTF8-octets = *( UTF8-1 / UTF8-2 / UTF8-3 / UTF8-4 )
RECURSIVE WellFormedUtf8(_)
WellFormedUtf8(t) ==
    LET n == Len(t)
    IN  \/ t = <<>>
        \/ t[1] <= 127 /\ WellFormedUtf8(Tail(t))
        \/ /\ n >= 2 /\ t[1] \in 194..223 /\ IsTail(t[2])
           /\ WellFormedUtf8(SubSeq(t, 3, n))
        \/ /\ n >= 3 /\ IsTail(t[3])
           /\ \/ t[1] = 224 /\ t[2] \in 160..191
              \/ t[1] \in (225..236) \cup {238, 239} /\ IsTail(t[2])
              \/ t[1] = 237 /\ t[2] \in 128..159
           /\ WellFormedUtf8(SubSeq(t, 4, n))
        \/ /\ n >= 4 /\ IsTail(t[3]) /\ IsTail(t[4])
           /\ \/ t[1] = 240 /\ t[2] \in 144..191
              \/ t[1] \in 241..243 /\ IsTail(t[2])
              \/ t[1] = 244 /\ t[2] \in 128..143
           /\ WellFormedUtf8(SubSeq(t, 5, n))

\* Every Number in v holds a JSON number and every String and key is UTF-8.
RECURSIVE IsJsonValue(_)
IsJsonValue(v) ==
    /\ v.typ = "VNUM" => IsJsonNumber(v.val)
    /\ v.typ = "VSTR" => WellFormedUtf8(v.val)
    /\ v.typ = "VOBJ" => \A k \in 1..Len(v.keys) : WellFormedUtf8(v.keys[k])
    /\ v.typ \in {"VOBJ", "VARR"} => \A k \in 1..Len(v.kids) : IsJsonValue(v.kids[k])

\* How deep the containers of v nest.
RECURSIVE NestingOf(_)
NestingOf(v) ==
    IF v.typ \notin {"VOBJ", "VARR"} THEN 0
    ELSE LET ds == { NestingOf(v.kids[k]) : k \in 1..Len(v.kids) } \cup {0}
         IN  1 + CHOOSE d \in ds : \A e \in ds : e <= d

\* The value read() left in its target.
Parsed == ToValue(nodes, 1)

\* C5 as stated: for any value built through the API and any pretty-indent,
\* parsing stringify(v) succeeds and yields a value equal to v.
C5_RoundTripAnyBuilt ==
    (pc = "done" /\ HasBuilt) => (strOk /\ UniValueEq(Parsed, built))

\* C5, amended: for any value built through the API whose Numbers all hold JSON
\* number literals, whose Strings and keys are well-formed UTF-8 and whose nesting
\* is at most 512 deep, and any pretty-indent, parsing stringify(v) succeeds and
\* yields a value equal to v.
C5_RoundTripJsonValues ==
    (pc = "done" /\ HasBuilt /\ IsJsonValue(built) /\ NestingOf(built) <= MAX_JSON_DEPTH)
        => (strOk /\ UniValueEq(Parsed, built))

\* C5 happens: an indented object holding a key with escapes and a nested
\* container went through stringify and read.
C5_Witness ==
    /\ pc = "done"
    /\ HasBuilt
    /\ IsJsonValue(built)
    /\ prettyIndent > 0
    /\ built.typ = "VOBJ"
    /\ Len(built.kids) = 2
    /\ built.keys[1] = <<107, 34, 10>>
    /\ NestingOf(built) = 3
    /\ strOk

\* The bytes of t that are not whitespace.
WithoutWhitespace(t) == SelectSeq(t, LAMBDA b : b \notin WhitespaceBytes)

\* C6: a document with an accepted number literal t in it (none of these documents
\* has whitespace in it), parsed and serialized with any pretty-indent, comes out
\* with exactly t at its place: but for the indentation the output is the input.
C6_NumbersVerbatim ==
    (pc = "written") => WithoutWhitespace(out) = SubSeq(raw, 1, size)

\* C6 happens: 1.10000000 was parsed inside an object and written back.
C6_Witness ==
    /\ pc = "written"
    /\ Parsed.typ = "VOBJ"
    /\ Parsed.kids[1].val = Bytes(<<"1", ".", "1", "0", "0", "0", "0", "0", "0", "0">>)
    /\ prettyIndent > 0

-----------------------------------------------------------------------------
(* Texts that are one number or one string, character by character *)

LexNumberChars == NumberChars \cup { C("E"), C("a") }

LexNumberTexts ==
    SeqsUpTo(LexNumberChars, MaxNumLen)
    \cup { Bytes(<<"1", ".", "1", "0", "0", "0", "0", "0", "0", "0">>),
           Bytes(<<"-", "1", "2", ".", "5", "E", "-", "0", "7">>),
           Bytes(<<"0", "1", "2", "3">>), Bytes(<<"-", "0", "0">>), Bytes(<<"-", "1", ".">>),
           Bytes(<<"1", ".", "3", "e", "+">>), Bytes(<<"1", ".", "3", "e", "+", "1", "0">>) }

\* What string bodies are made of: \u escapes (first halves D834 and D840, second
\* half DC00, U+00E9, one cut short), \n, \", the unknown escape \x, the letter a,
\* a raw line feed, raw UTF-8 of U+00E9 and a raw continuation byte.
StringPieces ==
    { Bytes(<<"\\", "u", "d", "8", "3", "4">>), Bytes(<<"\\", "u", "d", "8", "4", "0">>),
      Bytes(<<"\\", "u", "d", "c", "0", "0">>), Bytes(<<"\\", "u", "0", "0", "e", "9">>),
      Bytes(<<"\\", "u", "1", "2">>), Bytes(<<"\\", "n">>), Bytes(<<"\\", "\"">>),
      Bytes(<<"\\", "x">>), Bytes(<<"a">>), <<10>>, <<195, 169>>, <<128>> }

\* A string body has up to MaxPieces pieces.
MaxPieces == 3

LexStringTexts ==
    { <<34>> \o Flatten(ps) \o close :
        ps \in SeqsUpTo(StringPieces, MaxPieces), close \in { <<34>>, <<>> } }
    \cup { Bytes(<<"\"", "\\", "u", "d", "8", "3", "4", "\\", "u", "d", "d", "6", "1", "\"">>),
           Bytes(<<"\"", "\\", "u", "D", "8", "3", "4", "\\", "u", "D", "D", "6", "1", "\"">>),
           Bytes(<<"\"", "\\", "u", "d", "b", "f", "f", "\\", "u", "d", "f", "f", "f", "\"">>),
           Bytes(<<"\"", "\\", "u", "2", "0", "a", "c", "\\", "/", "\\", "b", "\\", "f",
                   "\\", "r", "\\", "t", "\\", "\\", "\"">>),
           Bytes(<<"\"", "\\", "u", "0", "0", "0", "0", "\\", "u", "0", "0", "4", "1", "1", "\"">>),
           Bytes(<<"\"", "\\", "u", "0", "0", "g", "0", "\"">>),
           Bytes(<<"\"", "\\">>), Bytes(<<"\"", "\\", "u">>) }

InitLex == \E text \in LexNumberTexts \cup LexStringTexts : EnterRead(text, <<NullNode>>)

SpecLex == InitLex /\ [][Next]_vars

\* Where the token that getJsonToken was last asked for starts: the first byte at
\* or after the cursor that is not JSON whitespace.
TokenStart ==
    CHOOSE s \in lexed.begin..Len(raw) :
        /\ raw[s] \notin WhitespaceBytes
        /\ \A i \in lexed.begin..(s - 1) : raw[i] \in WhitespaceBytes

\* getJsonToken was called and the token it was asked for starts with a byte of B.
LexedAt(B) == lexed.begin >= 1 /\ raw[TokenStart] \in B

\* Where the digits at p end.
DigitsEnd(mem, p) ==
    CHOOSE e \in p..Len(mem) :
        /\ mem[e] \notin DigitBytes
        /\ \A i \in p..(e - 1) : mem[i] \in DigitBytes

\* Where the longest run at s of the shape [-] digits [. digits] [e [+-] digits]
\* ends, whatever the number of digits in each place.
ScanEnd(mem, s) ==
    LET p1 == IF mem[s] = 45 THEN s + 1 ELSE s
        p2 == DigitsEnd(mem, p1)
        p3 == IF mem[p2] = 46 THEN DigitsEnd(mem, p2 + 1) ELSE p2
    IN  IF mem[p3] \in {101, 69}
        THEN DigitsEnd(mem, IF mem[p3 + 1] \in {43, 45} THEN p3 + 2 ELSE p3 + 1)
        ELSE p3

\* C7: for input starting at '-' or a digit the tokenizer returns a number token
\* exactly when the longest prefix it scans is a JSON number (optional '-', '0' or
\* a non-zero digit and digits, optional '.' and digits, optional e/E, sign and
\* digits), and the token text is that prefix; otherwise it returns an error.
C7_NumberGrammar ==
    LexedAt(DigitBytes \cup {45}) =>
        LET scanned == SubSeq(raw, TokenStart, ScanEnd(raw, TokenStart) - 1)
        IN  IF IsJsonNumber(scanned)
            THEN lexed.tok = "JTOK_NUMBER" /\ lexed.tokenVal = scanned
            ELSE lexed.tok = "JTOK_ERR"

\* C7 happens: -12.5E-07 was lexed as a number, and a text with a leading zero
\* was lexed too.
C7_Witness ==
    /\ LexedAt({45})
    /\ lexed.tok = "JTOK_NUMBER"
    /\ Len(lexed.tokenVal) = 9
    /\ lexed.tokenVal[6] = 69

-----------------------------------------------------------------------------
(* What a JSON string is: RFC 8259 section 7 *)

HexValue(b) ==
    IF b \in 48..57 THEN b - 48
    ELSE IF b \in 97..102 THEN b - 87
    ELSE IF b \in 65..70 THEN b - 55
    ELSE -1

\* The two-character escapes and the characters they stand for.
TwoCharEscapes ==
    (34 :> 34) @@ (92 :> 92) @@ (47 :> 47) @@ (98 :> 8) @@ (102 :> 12) @@ (110 :> 10) @@
    (114 :> 13) @@ (116 :> 9)

Unit(kind, val) == [kind |-> kind, val |-> val]

\* The units of the string whose body starts at p: raw bytes, two-character
\* escapes and \u escapes, up to the unit that ends it: the closing quote, the
\* NUL, a control character, an unknown escape or a \u without four hex digits.
RECURSIVE StringUnits(_, _)
StringUnits(mem, p) ==
    LET ch == mem[p]
    IN  IF ch = 0 THEN <<Unit("nul", 0)>>
        ELSE IF ch = 34 THEN <<Unit("close", 0)>>
        ELSE IF ch < 32 THEN <<Unit("control", ch)>>
        ELSE IF ch # 92 THEN <<Unit("byte", ch)>> \o StringUnits(mem, p + 1)
        ELSE IF mem[p + 1] \in DOMAIN TwoCharEscapes
             THEN <<Unit("escape", TwoCharEscapes[mem[p + 1]])>> \o StringUnits(mem, p + 2)
        ELSE IF mem[p + 1] # 117 THEN <<Unit("badescape", 0)>>
        ELSE IF \E k \in 2..5 : HexValue(At(mem, p + k)) < 0 THEN <<Unit("badhex", 0)>>
        ELSE <<Unit("unicode", 4096 * HexValue(mem[p + 2]) + 256 * HexValue(mem[p + 3])
                                + 16 * HexValue(mem[p + 4]) + HexValue(mem[p + 5]))>>
                \o StringUnits(mem, p + 6)

\* The units of the string getJsonToken was last asked for.
LexedUnits == StringUnits(raw, TokenStart + 1)

IsHighSurrogate(u) == u.kind = "unicode" /\ u.val \in 55296..56319
IsLowSurrogate(u) == u.kind = "unicode" /\ u.val \in 56320..57343

\* A first half not immediately followed by a second half, or a second half not
\* immediately after a first half.
HasLoneSurrogate(us) ==
    \E i \in 1..Len(us) :
        \/ IsHighSurrogate(us[i]) /\ ~(i < Len(us) /\ IsLowSurrogate(us[i + 1]))
        \/ IsLowSurrogate(us[i]) /\ ~(i > 1 /\ IsHighSurrogate(us[i - 1]))

HasSurrogatePair(us) ==
    \E i \in 1..(Len(us) - 1) : IsHighSurrogate(us[i]) /\ IsLowSurrogate(us[i + 1])

\* The UTF-8 encoding of a codepoint (RFC 3629 section 3).
Utf8(cp) ==
    IF cp < 128 THEN <<cp>>
    ELSE IF cp < 2048 THEN <<192 + (cp \div 64), 128 + (cp % 64)>>
    ELSE IF cp < 65536
         THEN <<224 + (cp \div 4096), 128 + ((cp \div 64) % 64), 128 + (cp % 64)>>
    ELSE <<240 + (cp \div 262144), 128 + ((cp \div 4096) % 64), 128 + ((cp \div 64) % 64),
           128 + (cp % 64)>>

\* 0x10000 + ((h - 0xD800) << 10) + (l - 0xDC00)
PairCodepoint(h, l) == 65536 + (h - 55296) * 1024 + (l - 56320)

\* The string the units stand for; a first half takes the second half after it.
RECURSIVE Decoded(_)
Decoded(us) ==
    IF us = <<>> THEN <<>>
    ELSE IF Head(us).kind \in {"byte", "escape"} THEN <<Head(us).val>> \o Decoded(Tail(us))
    ELSE IF Head(us).kind # "unicode" THEN <<>>
    ELSE IF IsHighSurrogate(Head(us)) /\ Len(us) > 1 /\ IsLowSurrogate(us[2])
         THEN Utf8(PairCodepoint(us[1].val, us[2].val)) \o Decoded(SubSeq(us, 3, Len(us)))
    ELSE Utf8(Head(us).val) \o Decoded(Tail(us))

Closed(us) == us[Len(us)].kind = "close"

AsciiOnly(us) == \A i \in 1..Len(us) : us[i].kind = "byte" => us[i].val < 128

NoSurrogates(us) == \A i \in 1..Len(us) : ~IsHighSurrogate(us[i]) /\ ~IsLowSurrogate(us[i])

\* C8: a string with a lone surrogate half in it (a first-half escape not
\* immediately followed by a second-half escape, or a second-half escape not
\* immediately after a first half) is rejected.
C8_LoneSurrogateRejected ==
    (LexedAt({34}) /\ HasLoneSurrogate(LexedUnits)) => lexed.tok = "JTOK_ERR"

\* C9: when every first-half escape h is immediately followed by a second-half
\* escape l, the string is accepted and holds, in place of each pair, the UTF-8
\* encoding of 0x10000 + ((h - 0xD800) << 10) + (l - 0xDC00).
C9_SurrogatePairCodepoint ==
    (/\ LexedAt({34})
     /\ Closed(LexedUnits) /\ AsciiOnly(LexedUnits)
     /\ HasSurrogatePair(LexedUnits) /\ ~HasLoneSurrogate(LexedUnits))
        => (lexed.tok = "JTOK_STRING" /\ lexed.tokenVal = Decoded(LexedUnits))

\* C10: a string with an unescaped byte below 0x20, with the NUL before its
\* closing quote, with a backslash before anything but one of the nine escape
\* letters, or with a \u that four hex digits do not follow, is an error token;
\* otherwise (its raw bytes being ASCII and its \u escapes no surrogates) it is a
\* string token and each escape is decoded to its character.
C10_StringLexErrors ==
    LexedAt({34}) =>
        /\ ~Closed(LexedUnits) => lexed.tok = "JTOK_ERR"
        /\ (Closed(LexedUnits) /\ AsciiOnly(LexedUnits) /\ NoSurrogates(LexedUnits))
              => (lexed.tok = "JTOK_STRING" /\ lexed.tokenVal = Decoded(LexedUnits))

\* C10 happens: a string of € and six more escapes was decoded.
C10_Witness ==
    /\ LexedAt({34})
    /\ Closed(LexedUnits)
    /\ Len(LexedUnits) = 8
    /\ lexed.tok = "JTOK_STRING"
    /\ lexed.tokenVal = <<226, 130, 172, 47, 8, 12, 13, 9, 92>>

-----------------------------------------------------------------------------
(* univalue_internal: ParseInt32, ParseInt64, ParseDouble *)

\* bool ParsePrechecks(const std::string& str)
ParsePrechecks(str) ==
    /\ str # <<>>
    /\ ~(json_isspace(str[1]) \/ json_isspace(str[Len(str)]))
    /\ \A i \in 1..Len(str) : str[i] # 0

\* The first position from p on whose byte is not in S.
RECURSIVE SkipWhile(_, _, _)
SkipWhile(mem, p, S) == IF At(mem, p) \in S THEN SkipWhile(mem, p + 1, S) ELSE p

\* isspace() of the C locale, which strtol and strtoll skip.
CSpaces == {9, 10, 11, 12, 13, 32}

\* An integer of any width: its sign and the decimal digits of its magnitude,
\* without leading zeros; zero is never negative.
IntOf(neg, mag) == [neg |-> neg /\ mag # <<0>>, mag |-> mag]

\* The digits ds without their leading zeros (one zero is kept).
RECURSIVE StripZeros(_)
StripZeros(ds) == IF Len(ds) > 1 /\ ds[1] = 0 THEN StripZeros(Tail(ds)) ELSE ds

\* a <= b for magnitudes without leading zeros.
MagLE(a, b) ==
    \/ Len(a) < Len(b)
    \/ /\ Len(a) = Len(b)
       /\ \/ a = b
          \/ \E i \in 1..Len(a) : a[i] < b[i] /\ \A j \in 1..(i - 1) : a[j] = b[j]

\* std::numeric_limits<int32_t>::max() and -min(), and those of int64_t.
INT32_MAX == <<2, 1, 4, 7, 4, 8, 3, 6, 4, 7>>
INT32_MIN == <<2, 1, 4, 7, 4, 8, 3, 6, 4, 8>>
INT64_MAX == <<9, 2, 2, 3, 3, 7, 2, 0, 3, 6, 8, 5, 4, 7, 7, 5, 8, 0, 7>>
INT64_MIN == <<9, 2, 2, 3, 3, 7, 2, 0, 3, 6, 8, 5, 4, 7, 7, 5, 8, 0, 8>>

\* n is within [-lo, hi].
InRange(n, lo, hi) == IF n.neg THEN MagLE(n.mag, lo) ELSE MagLE(n.mag, hi)

\* std::strtoll(str.c_str(), &endp, 10) with a 64-bit result: white space, an
\* optional sign, then digits; without digits nothing is consumed.  On overflow
\* the result is clamped and errno is ERANGE.
strtoll(str) ==
    LET mem    == str \o <<0>>
        p0     == SkipWhile(mem, 1, CSpaces)
        signed == At(mem, p0) \in {C("+"), C("-")}
        neg    == At(mem, p0) = C("-")
        p1     == IF signed THEN p0 + 1 ELSE p0
        p2     == SkipWhile(mem, p1, 48..57)
        mag    == StripZeros([i \in 1..(p2 - p1) |-> mem[p1 + i - 1] - 48])
        n      == IntOf(neg, mag)
    IN  IF p2 = p1 THEN [n |-> IntOf(FALSE, <<0>>), endp |-> 1, errno |-> FALSE]
        ELSE IF InRange(n, INT64_MIN, INT64_MAX) THEN [n |-> n, endp |-> p2, errno |-> FALSE]
        ELSE [n |-> IntOf(neg, IF neg THEN INT64_MIN ELSE INT64_MAX), endp |-> p2, errno |-> TRUE]

\* The range test of ParseInt32 with the upper bound left out.
Int32Range_NoUpperBound(n) == n.neg => MagLE(n.mag, INT32_MIN)

\* n >= std::numeric_limits<int32_t>::min() && n <= std::numeric_limits<int32_t>::max()
Int32Range(n) == InRange(n, INT32_MIN, INT32_MAX)

\* A ParseInt32 that does not ask that the whole text was consumed.
ParseInt32_PrefixOnly(str) ==
    LET r == strtoll(str)
    IN  IF ~ParsePrechecks(str) THEN [ok |-> FALSE, out |-> IntOf(FALSE, <<0>>)]
        ELSE [ok |-> ~r.errno /\ Int32Range(r.n), out |-> r.n]

\* bool ParseInt32(const std::string& str, int32_t *out); strtol's long is taken
\* as 64 bits wide (with a 32-bit long the overflow sets errno instead of failing
\* the range test, and the result is the same).
ParseInt32(str) ==
    LET r == strtoll(str)
    IN  IF ~ParsePrechecks(str) THEN [ok |-> FALSE, out |-> IntOf(FALSE, <<0>>)]
        ELSE [ok |-> (str \o <<0>>)[r.endp] = 0 /\ ~r.errno /\ Int32Range(r.n),
              out |-> r.n]

\* bool ParseInt64(const std::string& str, int64_t *out)
ParseInt64(str) ==
    LET r == strtoll(str)
    IN  IF ~ParsePrechecks(str) THEN [ok |-> FALSE, out |-> IntOf(FALSE, <<0>>)]
        ELSE [ok |-> (str \o <<0>>)[r.endp] = 0 /\ ~r.errno
                        /\ InRange(r.n, INT64_MIN, INT64_MAX),
              out |-> r.n]

\* The number a run of decimal digits (as values) denotes.
RECURSIVE DecimalValue(_)
DecimalValue(ds) ==
    IF ds = <<>> THEN 0 ELSE 10 * DecimalValue(SubSeq(ds, 1, Len(ds) - 1)) + ds[Len(ds)]

\* The digits ds without their trailing zeros.
RECURSIVE StripTrailingZeros(_)
StripTrailingZeros(ds) ==
    IF ds # <<>> /\ ds[Len(ds)] = 0 THEN StripTrailingZeros(SubSeq(ds, 1, Len(ds) - 1)) ELSE ds

\* std::numeric_limits<double>::max_exponent10
DBL_MAX_10_EXP == 308

\* The digits (as values) at the positions from, ..., to - 1 of mem.
Digits(mem, from, to) == [i \in 1..(to - from) |-> mem[from + i - 1] - 48]

\* The run [sign] digits [. digits] that starts at p0: whether it is negative
\* and where its integer digits (p1 to p2) and fraction digits (f1 to p3) lie.
ScanMantissa(mem, p0) ==
    LET p1 == IF At(mem, p0) \in {C("+"), C("-")} THEN p0 + 1 ELSE p0
        p2 == SkipWhile(mem, p1, 48..57)
        f1 == IF At(mem, p2) = C(".") THEN p2 + 1 ELSE p2
    IN  [neg |-> At(mem, p0) = C("-"), p1 |-> p1, p2 |-> p2, f1 |-> f1,
         p3 |-> SkipWhile(mem, f1, 48..57)]

\* The run [e [sign] digits] that starts at p3: whether the mark is there,
\* whether the exponent is negative and where its digits (e1 to p4) lie.
ScanExponent(mem, p3) ==
    LET mark == At(mem, p3) \in {C("e"), C("E")}
        e1   == IF ~mark THEN p3
                ELSE IF At(mem, p3 + 1) \in {C("+"), C("-")} THEN p3 + 2 ELSE p3 + 1
    IN  [mark |-> mark, eneg |-> mark /\ At(mem, p3 + 1) = C("-"), e1 |-> e1,
         p4 |-> SkipWhile(mem, e1, 48..57)]

\* The double that the digits ds, intLen of them before the point, and the
\* exponent digits edig denote; fail when the run is malformed (bad) or the
\* value is too large for a double.
ConvertDouble(neg, ds, sig, intLen, edig, eneg, bad, eof) ==
    LET huge   == Len(edig) > 3
        e      == IF huge \/ edig = <<>> THEN 0
                  ELSE IF eneg THEN -DecimalValue(edig) ELSE DecimalValue(edig)
        exp    == intLen - 1 - (Len(ds) - Len(sig)) + e
        isZero == sig = <<0>> \/ sig = <<>>
        over   == ~isZero /\ ((huge /\ ~eneg) \/ (~huge /\ exp > DBL_MAX_10_EXP))
    IN  [fail   |-> bad \/ over,
         eof    |-> eof,
         result |-> IF bad \/ isZero \/ (huge /\ eneg) THEN Double(neg /\ ~bad, <<>>, 0)
                    ELSE Double(neg, StripTrailingZeros(sig), exp)]

\* The conversion of the run whose mantissa is m and whose exponent is x.
ExtractRun(mem, m, x, ds) ==
    ConvertDouble(m.neg, ds, StripZeros(ds), m.p2 - m.p1,
                  StripZeros(Digits(mem, x.e1, x.p4)), x.eneg,
                  ds = <<>> \/ (x.mark /\ x.p4 = x.e1), mem[x.p4] = 0)

\* The conversion of the run whose mantissa is m.
ExtractMantissa(mem, m) ==
    ExtractRun(mem, m, ScanExponent(mem, m.p3),
               Digits(mem, m.p1, m.p2) \o Digits(mem, m.f1, m.p3))

\* text >> result on an istringstream in the classic locale: white space is
\* skipped, then the longest run [sign] digits [. digits] [e [sign] digits] is
\* taken and converted.  The extraction fails when the run has no digit, has an
\* exponent mark without digits, or denotes a value too large for a double;
\* eof is set when the run reaches the end of the text.
ExtractDouble(str) ==
    ExtractMantissa(str \o <<0>>, ScanMantissa(str \o <<0>>, SkipWhile(str \o <<0>>, 1, CSpaces)))

\* bool ParseDouble(const std::string& str, double *out)
ParseDouble(str) ==
    LET t == ExtractDouble(str)
    IN  IF ~ParsePrechecks(str) THEN [ok |-> FALSE, out |-> Double(FALSE, <<>>, 0)]
        ELSE IF Len(str) >= 2 /\ str[1] = C("0") /\ str[2] = C("x")
        THEN [ok |-> FALSE, out |-> Double(FALSE, <<>>, 0)]
        ELSE [ok |-> t.eof /\ ~t.fail, out |-> t.result]

-----------------------------------------------------------------------------
(* univalue.h / univalue.cpp / univalue_get.cpp: type tests, lookups, getters *)

\* constexpr static auto MBOOL = VFALSE | VTRUE
MBOOL == {"VFALSE", "VTRUE"}

\* bool is(int types): typ & types
is(v, types) == v.typ \in types

\* constexpr bool getBool(): whether the type is VTRUE.
getBool(v) == is(v, {"VTRUE"})

\* static const std::string emptyVal
emptyVal == <<>>

getValStr(v) == IF v.typ = "VSTR" \/ v.typ = "VNUM" THEN v.val ELSE emptyVal

\* A call that returns x, and one that throws the exception class `error`.
Return(x) == [error |-> "none", what |-> "", value |-> x]
Throw(error, what) == [error |-> error, what |-> what, value |-> <<>>]

\* A reference (or pointer) to the element at position k of the value's own
\* vector (k counts from 1), and a reference to the static UniValue::Null.
ElementRef(k) == [to |-> "element", k |-> k]
NullRef == [to |-> "UniValue::Null", k |-> 0]

\* What a reference obtained from v refers to.
Deref(v, ref) == IF ref.to = "element" THEN v.kids[ref.k] ELSE NullNode

\* Object::locate(key): the loop over the entries from entry k on; a pointer to
\* an entry is its position, nullptr is NULLPTR.
RECURSIVE ObjectLocateFrom(_, _, _)
ObjectLocateFrom(keys, key, k) ==
    IF k > Len(keys) THEN NULLPTR
    ELSE IF keys[k] = key THEN k
    ELSE ObjectLocateFrom(keys, key, k + 1)

\* A lookup that returns the last entry with the key.
ObjectLocate_Last(keys, key) ==
    IF \E k \in 1..Len(keys) : keys[k] = key
    THEN CHOOSE k \in 1..Len(keys) :
            keys[k] = key /\ \A j \in (k + 1)..Len(keys) : keys[j] # key
    ELSE NULLPTR

ObjectLocate(keys, key) == ObjectLocateFrom(keys, key, 1)

\* Object::operator[](size_type index) and Array::operator[](size_type index)
VectorIndex(n, index) == IF index < n THEN ElementRef(index + 1) ELSE NullRef

\* Object::front() / Array::front(), Object::back() / Array::back()
VectorFront(n) == IF n # 0 THEN ElementRef(1) ELSE NullRef
VectorBack(n) == IF n # 0 THEN ElementRef(n) ELSE NullRef

\* Object::at(std::string_view key)
ObjectAtKey(keys, key) ==
    LET found == ObjectLocate(keys, key)
    IN  IF found # NULLPTR THEN Return(ElementRef(found))
        ELSE Throw("out_of_range", "Key not found in JSON object")

\* An at() that tests index <= size.
VectorAt_OffByOne(n, index) ==
    IF index <= n THEN Return(ElementRef(index + 1))
    ELSE Throw("out_of_range", "Index out of range")

\* Object::at(size_type index) and Array::at(size_type index)
VectorAt(n, index) ==
    IF index < n THEN Return(ElementRef(index + 1))
    ELSE Throw("out_of_range", "Index out of range")

\* UniValue::locate(std::string_view key)
locate(v, key) == IF v.typ = "VOBJ" THEN ObjectLocate(v.keys, key) ELSE NULLPTR

\* UniValue::operator[](std::string_view key)
IndexKey(v, key) ==
    LET found == locate(v, key)
    IN  IF found # NULLPTR THEN ElementRef(found) ELSE NullRef

\* An operator[] that serves arrays only.
Index_ArraysOnly(v, index) ==
    IF v.typ = "VARR" THEN VectorIndex(Len(v.kids), index) ELSE NullRef

\* UniValue::operator[](size_type index)
Index(v, index) ==
    IF v.typ = "VOBJ" THEN VectorIndex(Len(v.kids), index)
    ELSE IF v.typ = "VARR" THEN VectorIndex(Len(v.kids), index)
    ELSE NullRef

\* UniValue::front()
front(v) ==
    IF v.typ = "VOBJ" THEN VectorFront(Len(v.kids))
    ELSE IF v.typ = "VARR" THEN VectorFront(Len(v.kids))
    ELSE NullRef

\* UniValue::back()
back(v) ==
    IF v.typ = "VOBJ" THEN VectorBack(Len(v.kids))
    ELSE IF v.typ = "VARR" THEN VectorBack(Len(v.kids))
    ELSE NullRef

\* UniValue::at(std::string_view key)
atKey(v, key) ==
    IF v.typ = "VOBJ" THEN ObjectAtKey(v.keys, key)
    ELSE Throw("domain_error", "Cannot look up keys in JSON")

\* UniValue::at(size_type index)
atIndex(v, index) ==
    IF v.typ = "VOBJ" THEN VectorAt(Len(v.kids), index)
    ELSE IF v.typ = "VARR" THEN VectorAt(Len(v.kids), index)
    ELSE Throw("domain_error", "Cannot look up indices in JSON")

get_bool(v) ==
    IF ~is(v, MBOOL) THEN Throw("runtime_error", "JSON value is not a boolean as expected")
    ELSE Return(getBool(v))

get_int(v) ==
    IF ~is(v, {"VNUM"}) THEN Throw("runtime_error", "JSON value is not an integer as expected")
    ELSE IF ~ParseInt32(getValStr(v)).ok THEN Throw("runtime_error", "JSON integer out of range")
    ELSE Return(ParseInt32(getValStr(v)).out)

get_int64(v) ==
    IF ~is(v, {"VNUM"}) THEN Throw("runtime_error", "JSON value is not an integer as expected")
    ELSE IF ~ParseInt64(getValStr(v)).ok THEN Throw("runtime_error", "JSON integer out of range")
    ELSE Return(ParseInt64(getValStr(v)).out)

get_real(v) ==
    IF ~is(v, {"VNUM"}) THEN Throw("runtime_error", "JSON value is not a number as expected")
    ELSE IF ~ParseDouble(getValStr(v)).ok THEN Throw("runtime_error", "JSON double out of range")
    ELSE Return(ParseDouble(getValStr(v)).out)

\* A get_str that also serves Numbers, whose text shares the string's storage.
get_str_OrNum(v) ==
    IF ~is(v, {"VSTR", "VNUM"}) THEN Throw("runtime_error", "JSON value is not a string as expected")
    ELSE Return(v.val)

get_str(v) ==
    IF ~is(v, {"VSTR"}) THEN Throw("runtime_error", "JSON value is not a string as expected")
    ELSE Return(v.val)

\* get_obj() returns u.entries: the keys and the values, in order.
get_obj(v) ==
    IF ~is(v, {"VOBJ"}) THEN Throw("runtime_error", "JSON value is not an object as expected")
    ELSE Return([keys |-> v.keys, kids |-> v.kids])

\* get_array() returns u.values.
get_array(v) ==
    IF ~is(v, {"VARR"}) THEN Throw("runtime_error", "JSON value is not an array as expected")
    ELSE Return(v.kids)

-----------------------------------------------------------------------------
(* A UniValue under a sequence of calls of the public interface *)

\* The nodes of ns with every child pointer moved by d.
Shift(ns, d) ==
    [i \in 1..Len(ns) |-> [ns[i] EXCEPT !.kids = [k \in 1..Len(@) |-> @[k] + d]]]

\* The number of nodes of the first k heaps of hs.
RECURSIVE NodesIn(_, _)
NodesIn(hs, k) == IF k = 0 THEN 0 ELSE NodesIn(hs, k - 1) + Len(hs[k])

\* The objects the value v is made of, v itself being node 1.
RECURSIVE ToHeap(_)
ToHeap(v) ==
    LET subs == [k \in 1..Len(v.kids) |-> ToHeap(v.kids[k])]
    IN  <<[v EXCEPT !.kids = [k \in 1..Len(v.kids) |-> 2 + NodesIn(subs, k - 1)]]>>
            \o Flatten([k \in 1..Len(v.kids) |-> Shift(subs[k], 1 + NodesIn(subs, k - 1))])

\* UniValue::setObject(), UniValue::setArray()
setObject == Node("VOBJ", <<>>)
setArray == Node("VARR", <<>>)

\* Containers hold up to MaxEntries elements.
MaxEntries == 2

\* Integers written as their digits.
IntText(neg, ds) == (IF neg THEN <<C("-")>> ELSE <<>>) \o DigitChars(ds)

\* Integer literals around the ends of the int32 and int64 ranges.
IntTexts ==
    { IntText(FALSE, <<0>>), IntText(TRUE, <<0>>), IntText(FALSE, <<1, 0, 0, 0>>),
      IntText(FALSE, INT32_MAX), IntText(FALSE, INT32_MIN),
      IntText(TRUE, INT32_MIN), IntText(TRUE, <<2, 1, 4, 7, 4, 8, 3, 6, 4, 9>>),
      IntText(FALSE, INT64_MAX), IntText(FALSE, INT64_MIN),
      IntText(TRUE, INT64_MIN), IntText(TRUE, <<9, 2, 2, 3, 3, 7, 2, 0, 3, 6, 8, 5, 4, 7, 7, 5, 8, 0, 9>>),
      IntText(FALSE, <<3, 2, 4, 8, 2, 3, 4, 8, 7, 2, 3, 8, 4, 7, 4, 7, 1, 2, 3, 4>>) }

\* The texts handed to setNumStr: numbers, numbers in white space, and texts
\* that are no number.
SetNumStrTexts ==
    IntTexts \cup NumStrs
    \cup { Bytes(<<"-", "6", "8", "8">>), Bytes(<<" ", "-", "6", "9", "0", " ", "k">>),
           Bytes(<<"-", "6", "8", "8", "k">>), Bytes(<<"\\t", "\\r", "1", "e", "2", "\\n">>),
           Bytes(<<"1", "\\f">>), Bytes(<<" ">>), Bytes(<<"-">>), Bytes(<<"0", "1">>),
           Bytes(<<"1", ".", "0">>), Bytes(<<"1", ".">>), Bytes(<<"t", "r", "u", "e">>),
           Bytes(<<"\"", "1", "\"">>), Bytes(<<"[", "1", "]">>) }

\* The texts handed to the constructors that take a type and a string.
TypedTexts == { <<>>, Bytes(<<"k">>), Bytes(<<"1">>), Bytes(<<"+", "5">>), Bytes(<<"0", "x", "1">>) }

ApiStrs == { <<>>, Bytes(<<"a">>), Bytes(<<"1">>) }

ApiDoubles == Doubles \cup { NotFinite("-inf") }

\* What is appended to arrays and objects, and under which keys.
ApiElements == { NullNode, AssignBool(TRUE) }
ApiKeys == { Bytes(<<"a">>), Bytes(<<"b">>) }

\* The keys looked up: two that are appended and one that never is.
LookupKeys == ApiKeys \cup { Bytes(<<"k">>) }

\* The indices looked up: those of the elements and two past the end.
LookupIndices == 0..(MaxEntries + 1)

\* The documents read into the value.
ApiDocuments ==
    { Bytes(<<"{", "\"", "a", "\"", ":", "n", "u", "l", "l", ",", "\"", "a", "\"", ":", "1", ",",
              "\"", "b", "\"", ":", "1", "}">>),
      Bytes(<<"{", "\"", "b", "\"", ":", "[", "]", ",", "\"", "b", "\"", ":", "n", "u", "l", "l", "}">>),
      Bytes(<<"[", "1", "E", "2", ",", "n", "u", "l", "l", "]">>),
      Bytes(<<"-", "0", ".", "1", "0">>), Bytes(<<"\"", "a", "\"">>),
      Bytes(<<"[", "1", ",">>), Bytes(<<"[", "1", "]", " ", "1">>), Bytes(<<"0", "1">>),
      Bytes(<<"]">>) }

\* The variables of read() and stringify().
ioVars ==
    <<writer, raw, size, buffer, lexed, tokenVal, tok, last_tok, expectMask, stack, nodes, pc, ret,
      errpos, strOk, strErrpos, prettyIndent, out>>

\* The call op(arg) is made on the value; it returns or throws as res says and
\* leaves the value as `after`.
Called(op, arg, res, after) ==
    /\ call' = [op |-> op, arg |-> arg, before |-> built, result |-> res.value,
                error |-> res.error, what |-> res.what]
    /\ built' = after
    /\ UNCHANGED ioVars

\* UniValue v(initialType)
ApiConstruct ==
    /\ pc = "api"
    /\ \E t \in VTypes : Called("UniValue(VType)", t, Return(<<>>), UniValueOfType(t))

\* UniValue v(initialType, initialStr)
ApiConstructStr ==
    /\ pc = "api"
    /\ \E t \in VTypes, str \in TypedTexts :
          Called("UniValue(VType, string)", <<t, str>>, Return(<<>>), UniValueOfTypeStr(t, str))

ApiSetNull ==
    /\ pc = "api"
    /\ Called("setNull", <<>>, Return(<<>>), NullNode)

ApiSetObject ==
    /\ pc = "api"
    /\ Called("setObject", <<>>, Return(<<>>), setObject)

ApiSetArray ==
    /\ pc = "api"
    /\ Called("setArray", <<>>, Return(<<>>), setArray)

ApiAssignBool ==
    /\ pc = "api"
    /\ \E b \in BOOLEAN : Called("operator=(bool)", b, Return(<<>>), AssignBool(b))

ApiAssignInt ==
    /\ pc = "api"
    /\ \E n \in Ints : Called("operator=(int)", n, Return(<<>>), setInt64(n))

ApiAssignDouble ==
    /\ pc = "api"
    /\ \E d \in ApiDoubles : Called("operator=(double)", d, Return(<<>>), AssignDouble(d))

ApiAssignString ==
    /\ pc = "api"
    /\ \E str \in ApiStrs : Called("operator=(string)", str, Return(<<>>), AssignString(str))

ApiSetNumStr ==
    /\ pc = "api"
    /\ \E str \in SetNumStrTexts : Called("setNumStr", str, Return(<<>>), setNumStr(built, str))

\* v.get_array().push_back(x)
ApiArrayPushBack ==
    /\ pc = "api"
    /\ is(built, {"VARR"})
    /\ Len(built.kids) < MaxEntries
    /\ \E x \in ApiElements :
          Called("Array::push_back", x, Return(<<>>), ArrayPushBack(built, x))

\* v.get_obj().emplace_back(key, x)
ApiObjectPushBack ==
    /\ pc = "api"
    /\ is(built, {"VOBJ"})
    /\ Len(built.kids) < MaxEntries
    /\ \E key \in ApiKeys, x \in ApiElements :
          Called("Object::emplace_back", <<key, x>>, Return(<<>>), ObjectPushBack(built, key, x))

ApiGetBool ==
    /\ pc = "api"
    /\ Called("get_bool", <<>>, get_bool(built), built)

ApiGetInt ==
    /\ pc = "api"
    /\ Called("get_int", <<>>, get_int(built), built)

ApiGetInt64 ==
    /\ pc = "api"
    /\ Called("get_int64", <<>>, get_int64(built), built)

ApiGetReal ==
    /\ pc = "api"
    /\ Called("get_real", <<>>, get_real(built), built)

ApiGetStr ==
    /\ pc = "api"
    /\ Called("get_str", <<>>, get_str(built), built)

ApiGetObj ==
    /\ pc = "api"
    /\ Called("get_obj", <<>>, get_obj(built), built)

ApiGetArray ==
    /\ pc = "api"
    /\ Called("get_array", <<>>, get_array(built), built)

ApiGetValStr ==
    /\ pc = "api"
    /\ Called("getValStr", <<>>, Return(getValStr(built)), built)

ApiIndexKey ==
    /\ pc = "api"
    /\ \E key \in LookupKeys :
          Called("operator[](key)", key, Return(IndexKey(built, key)), built)

ApiIndex ==
    /\ pc = "api"
    /\ \E index \in LookupIndices :
          Called("operator[](index)", index, Return(Index(built, index)), built)

ApiFront ==
    /\ pc = "api"
    /\ Called("front", <<>>, Return(front(built)), built)

ApiBack ==
    /\ pc = "api"
    /\ Called("back", <<>>, Return(back(built)), built)

ApiAtKey ==
    /\ pc = "api"
    /\ \E key \in LookupKeys : Called("at(key)", key, atKey(built, key), built)

ApiAtIndex ==
    /\ pc = "api"
    /\ \E index \in LookupIndices : Called("at(index)", index, atIndex(built, index), built)

ApiLocate ==
    /\ pc = "api"
    /\ \E key \in LookupKeys : Called("locate", key, Return(locate(built, key)), built)

\* v.read(text): the call is entered with the value as it is.
ApiRead ==
    /\ pc = "api"
    /\ \E text \in ApiDocuments :
          /\ raw' = text \o <<0>>
          /\ size' = Len(text)
          /\ call' = [op |-> "read", arg |-> text, before |-> built, result |-> <<>>,
                      error |-> "none", what |-> ""]
    /\ buffer' = 1
    /\ nodes' = ToHeap(built)
    /\ pc' = "start"
    /\ UNCHANGED <<writer, lexed, tokenVal, tok, last_tok, expectMask, stack, ret, errpos, strOk,
                   strErrpos, built, prettyIndent, out>>

\* v.read(text) has returned: the value is what read() left in *this, and the
\* text and the locals of read() are gone.
ApiReadDone ==
    /\ pc = "done"
    /\ call.op = "read"
    /\ built' = ToValue(nodes, 1)
    /\ call' = [call EXCEPT !.result = strOk]
    /\ pc' = "api"
    /\ raw' = <<0>>
    /\ size' = 0
    /\ buffer' = 1
    /\ lexed' = NoToken
    /\ tokenVal' = <<>>
    /\ tok' = "JTOK_NONE"
    /\ last_tok' = "JTOK_NONE"
    /\ expectMask' = {}
    /\ stack' = <<>>
    /\ nodes' = <<NullNode>>
    /\ ret' = NULLPTR
    /\ errpos' = NULLPTR
    /\ strOk' = FALSE
    /\ strErrpos' = NPOS
    /\ UNCHANGED <<writer, prettyIndent, out>>

NextApi ==
    \/ ApiConstruct \/ ApiConstructStr \/ ApiSetNull \/ ApiSetObject \/ ApiSetArray
    \/ ApiAssignBool \/ ApiAssignInt \/ ApiAssignDouble \/ ApiAssignString \/ ApiSetNumStr
    \/ ApiArrayPushBack \/ ApiObjectPushBack
    \/ ApiGetBool \/ ApiGetInt \/ ApiGetInt64 \/ ApiGetReal \/ ApiGetStr \/ ApiGetObj
    \/ ApiGetArray \/ ApiGetValStr
    \/ ApiIndexKey \/ ApiIndex \/ ApiFront \/ ApiBack \/ ApiAtKey \/ ApiAtIndex \/ ApiLocate
    \/ ApiRead \/ ApiReadDone
    \/ Next

\* UniValue v; the default constructor makes a Null.
InitApi ==
    /\ raw = <<0>>
    /\ size = 0
    /\ buffer = 1
    /\ lexed = NoToken
    /\ tokenVal = <<>>
    /\ tok = "JTOK_NONE"
    /\ last_tok = "JTOK_NONE"
    /\ expectMask = {}
    /\ stack = <<>>
    /\ nodes = <<NullNode>>
    /\ pc = "api"
    /\ ret = NULLPTR
    /\ errpos = NULLPTR
    /\ strOk = FALSE
    /\ strErrpos = NPOS
    /\ built = NullNode
    /\ call = NoCall
    /\ prettyIndent = 0
    /\ out = <<>>
    /\ writer = NewFilter(<<>>)

SpecApi == InitApi /\ [][NextApi]_vars

-----------------------------------------------------------------------------
(* setNumStr *)

\* The call op has just been made on the value.
Made(op) == pc = "api" /\ call.op = op

\* The text without the JSON whitespace at its two ends.
Trimmed(text) == Stripped(text \o <<0>>)

\* The text is one JSON number with nothing but JSON whitespace around it.
IsNumStr(text) == IsJsonNumber(Trimmed(text))

\* C11 as stated: setNumStr(text) with a text that is no valid numeric literal
\* makes the value Null, whatever it held before the call.
C11_InvalidNumStrMakesNull ==
    (Made("setNumStr") /\ ~IsNumStr(call.arg)) => built.typ = "VNULL"

\* C11, amended: after setNumStr(text) with a text that is no valid numeric
\* literal the value is Null only if it was Null before the call; a value of
\* any other type keeps its type.
C11_InvalidNumStrNullOnlyIfNull ==
    (Made("setNumStr") /\ ~IsNumStr(call.arg))
        => /\ built.typ = "VNULL" <=> call.before.typ = "VNULL"
           /\ built.typ = call.before.typ

\* A Null was given a number followed by junk, and is still Null.
C11_Witness ==
    /\ Made("setNumStr")
    /\ call.arg = Bytes(<<" ", "-", "6", "9", "0", " ", "k">>)
    /\ call.before.typ = "VNULL"
    /\ built.typ = "VNULL"

\* C12: setNumStr(text) with a text that is no valid numeric literal leaves the
\* type and the contents of the value exactly as they were before the call.
C12_InvalidNumStrKeepsValue ==
    (Made("setNumStr") /\ ~IsNumStr(call.arg)) => built = call.before

\* A value holding true was given a text that is no number, and holds true; so
\* does an array with two elements.
C12_Witness ==
    /\ Made("setNumStr")
    /\ call.arg = Bytes(<<"k">>)
    /\ call.before.typ \in {"VTRUE", "VARR"}
    /\ call.before.typ = "VARR" => Len(call.before.kids) = MaxEntries
    /\ built = call.before

\* C13: setNumStr(text) turns the value into a Number exactly when the text,
\* without the JSON whitespace at its ends, is one JSON number; the literal
\* stored is then that number text, unchanged.
C13_SetNumStrStoresNumber ==
    Made("setNumStr") =>
        IF IsNumStr(call.arg)
        THEN built = Node("VNUM", Trimmed(call.arg))
        ELSE built.typ = "VNUM" => (call.before.typ = "VNUM" /\ built.val = call.before.val)

\* A string was given " -689 " and is the Number -689.
C13_Witness ==
    /\ Made("setNumStr")
    /\ call.arg = Bytes(<<" ", "-", "6", "8", "9", " ">>)
    /\ call.before.typ = "VSTR"
    /\ built = Node("VNUM", Bytes(<<"-", "6", "8", "9">>))

-----------------------------------------------------------------------------
(* Number literals, non-finite doubles *)

\* C14 as stated: after any sequence of public operations, construction with a
\* type tag among them, a value whose type is Number holds a literal that
\* matches the JSON number grammar.
C14_NumberLiteralIsJsonNumber ==
    (pc = "api" /\ built.typ = "VNUM") => IsJsonNumber(built.val)

\* The constructors that take a type tag.
TypeTagConstructors == {"UniValue(VType)", "UniValue(VType, string)"}

\* C14, amended: every public operation other than construction with a type
\* tag (integer, double, bool and string assignment, setNumStr, setNull,
\* setObject, setArray, read) that assigns the value a Number stores a literal
\* matching the JSON number grammar, whatever the value held before.
C14_CheckedOperationsStoreJsonNumbers ==
    (/\ pc = "api"
     /\ call.op \notin TypeTagConstructors \cup {"none"}
     /\ built # call.before
     /\ built.typ = "VNUM") => IsJsonNumber(built.val)

\* A Number built from the type tag and the text "k" was assigned 1e20.
C14_Witness ==
    /\ Made("operator=(double)")
    /\ call.before = Node("VNUM", Bytes(<<"k">>))
    /\ built = Node("VNUM", Bytes(<<"1", "e", "+", "2", "0">>))

\* C15: assigning NaN or an infinity to a value of any type leaves it Null;
\* assigning a finite double leaves it a Number.
C15_NonFiniteDoubleMakesNull ==
    Made("operator=(double)") =>
        IF call.arg.class \in {"nan", "inf", "-inf"} THEN built = NullNode
        ELSE built.typ = "VNUM"

\* An object with entries was assigned -Infinity and is Null.
C15_Witness ==
    /\ Made("operator=(double)")
    /\ call.arg.class = "-inf"
    /\ call.before.typ = "VOBJ"
    /\ Len(call.before.kids) = MaxEntries
    /\ built = NullNode

-----------------------------------------------------------------------------
(* Strict getters *)

Getters == {"get_bool", "get_int", "get_int64", "get_real", "get_str", "get_obj", "get_array"}

\* The types the getter serves.
GetterTypes(op) ==
    IF op = "get_bool" THEN {"VTRUE", "VFALSE"}
    ELSE IF op \in {"get_int", "get_int64", "get_real"} THEN {"VNUM"}
    ELSE IF op = "get_str" THEN {"VSTR"}
    ELSE IF op = "get_obj" THEN {"VOBJ"}
    ELSE {"VARR"}

\* C16: each strict getter fails with an error whenever the type of the value
\* is not the getter's, and no getter call, failing or not, changes the value.
C16_GettersCheckType ==
    (pc = "api" /\ call.op \in Getters) =>
        /\ call.before.typ \notin GetterTypes(call.op) => call.error = "runtime_error"
        /\ built = call.before

\* get_str was called on a Number and failed.
C16_Witness ==
    /\ Made("get_str")
    /\ call.before = Node("VNUM", Bytes(<<"1", "0", "0", "0">>))
    /\ call.error = "runtime_error"
    /\ built = call.before

\* The text is an integer literal: an optional minus and a JSON int.
IsIntegerLiteral(t) == IsInt(t) \/ (t # <<>> /\ t[1] = 45 /\ IsInt(Tail(t)))

\* The integer an integer literal denotes.
IntegerOf(t) ==
    LET ds == IF t[1] = 45 THEN Tail(t) ELSE t
    IN  [neg |-> t[1] = 45 /\ ds # <<48>>, mag |-> [i \in 1..Len(ds) |-> ds[i] - 48]]

\* The number the digits ds denote (up to nine of them).
RECURSIVE NatOf(_)
NatOf(ds) == IF ds = <<>> THEN 0 ELSE NatOf(SubSeq(ds, 1, Len(ds) - 1)) * 10 + ds[Len(ds)]

\* n is within the two's complement range whose largest value is written as
\* the nine-digit groups hi followed by the digit last.
Fits(n, hi, last) ==
    LET width == 9 * Len(hi) + 1
        group(c) == NatOf(SubSeq(n.mag, 9 * (c - 1) + 1, 9 * c))
        top == IF n.neg THEN last + 1 ELSE last
    IN  \/ Len(n.mag) < width
        \/ /\ Len(n.mag) = width
           /\ \/ \E c \in 1..Len(hi) : group(c) < hi[c] /\ \A b \in 1..(c - 1) : group(b) = hi[b]
              \/ (\A c \in 1..Len(hi) : group(c) = hi[c]) /\ n.mag[width] <= top

\* -2^31 .. 2^31 - 1 = 2147483647, and -2^63 .. 2^63 - 1 = 9223372036854775807
FitsInt32(n) == Fits(n, <<214748364>>, 7)
FitsInt64(n) == Fits(n, <<922337203, 685477580>>, 7)

\* C17: on a Number whose literal is an integer n, get_int returns n when n is
\* within the int32 range and fails with the out-of-range error otherwise, and
\* get_int64 does the same with the int64 range.
C17_IntegerGettersCheckRange ==
    (pc = "api" /\ call.op \in {"get_int", "get_int64"}
        /\ call.before.typ = "VNUM" /\ IsIntegerLiteral(call.before.val)) =>
        LET n == IntegerOf(call.before.val)
        IN  IF (IF call.op = "get_int" THEN FitsInt32(n) ELSE FitsInt64(n))
            THEN call.error = "none" /\ call.result = n
            ELSE call.error = "runtime_error" /\ call.what = "JSON integer out of range"

\* get_int failed on 2147483648.
C17_Witness ==
    /\ Made("get_int")
    /\ call.before = Node("VNUM", IntText(FALSE, INT32_MIN))
    /\ call.what = "JSON integer out of range"

-----------------------------------------------------------------------------
(* Lookups *)

\* The value has an entry with the key.
HasKey(v, key) == v.typ = "VOBJ" /\ \E k \in 1..Len(v.keys) : v.keys[k] = key

\* The number of elements of an object or array, and 0 for any other value.
SizeOf(v) == IF v.typ \in {"VOBJ", "VARR"} THEN Len(v.kids) ELSE 0

\* C18: operator[] by key and by index, front() and back() never fail; they
\* return a reference to the stored element when it exists and otherwise a
\* reference to the shared Null; getValStr() returns the text of a Number or
\* String and the empty string for every other type.
C18_LenientLookups ==
    /\ Made("operator[](key)") =>
          /\ call.error = "none"
          /\ IF HasKey(call.before, call.arg)
             THEN call.result.to = "element" /\ call.before.keys[call.result.k] = call.arg
             ELSE call.result = NullRef
    /\ Made("operator[](index)") =>
          /\ call.error = "none"
          /\ IF call.arg < SizeOf(call.before)
             THEN call.result = ElementRef(call.arg + 1)
             ELSE call.result = NullRef
    /\ Made("front") =>
          /\ call.error = "none"
          /\ IF SizeOf(call.before) > 0 THEN call.result = ElementRef(1)
             ELSE call.result = NullRef
    /\ Made("back") =>
          /\ call.error = "none"
          /\ IF SizeOf(call.before) > 0 THEN call.result = ElementRef(SizeOf(call.before))
             ELSE call.result = NullRef
    /\ Made("getValStr") =>
          /\ call.error = "none"
          /\ IF call.before.typ \in {"VNUM", "VSTR"} THEN call.result = call.before.val
             ELSE call.result = <<>>
    /\ (pc = "api" /\ call.op \in {"operator[](key)", "operator[](index)", "front", "back",
                                   "getValStr"}) => built = call.before

\* operator[] was asked for the element past the end of a full object and
\* returned the shared Null.
C18_Witness ==
    /\ Made("operator[](index)")
    /\ call.before.typ = "VOBJ"
    /\ call.arg = MaxEntries
    /\ Len(call.before.kids) = MaxEntries
    /\ call.result = NullRef

\* C19: at(index) fails with domain_error on a value that is neither object
\* nor array and with out_of_range when index >= size; at(key) fails with
\* domain_error on every non-object and with out_of_range when no entry has
\* the key; when at() succeeds it returns what operator[] returns.
C19_AtFailsOrAgrees ==
    /\ Made("at(index)") =>
          IF call.before.typ \notin {"VOBJ", "VARR"} THEN call.error = "domain_error"
          ELSE IF call.arg >= Len(call.before.kids) THEN call.error = "out_of_range"
          ELSE call.error = "none" /\ call.result = Index(call.before, call.arg)
    /\ Made("at(key)") =>
          IF call.before.typ # "VOBJ" THEN call.error = "domain_error"
          ELSE IF \A k \in 1..Len(call.before.keys) : call.before.keys[k] # call.arg
               THEN call.error = "out_of_range"
          ELSE call.error = "none" /\ call.result = IndexKey(call.before, call.arg)

\* at("a") failed with domain_error on an array that has an element.
C19_Witness ==
    /\ Made("at(key)")
    /\ call.before.typ = "VARR"
    /\ Len(call.before.kids) > 0
    /\ call.error = "domain_error"

-----------------------------------------------------------------------------
(* Objects keep their entries in order *)

\* The keys of the object a text starts with, in the order of the text: the
\* strings that follow the opening brace and the commas between its members
\* (for texts whose strings have no escapes).
RECURSIVE TopKeysFrom(_, _, _, _)
TopKeysFrom(text, i, depth, expectKey) ==
    IF i > Len(text) THEN <<>>
    ELSE IF text[i] \in {123, 91} THEN TopKeysFrom(text, i + 1, depth + 1, depth = 0 /\ text[i] = 123)
    ELSE IF text[i] \in {125, 93} THEN TopKeysFrom(text, i + 1, depth - 1, FALSE)
    ELSE IF text[i] = 44 THEN TopKeysFrom(text, i + 1, depth, depth = 1)
    ELSE IF text[i] = 34
         THEN LET e == CHOOSE j \in (i + 1)..Len(text) :
                          text[j] = 34 /\ \A m \in (i + 1)..(j - 1) : text[m] # 34
              IN  (IF expectKey THEN <<SubSeq(text, i + 1, e - 1)>> ELSE <<>>)
                      \o TopKeysFrom(text, e + 1, depth, FALSE)
    ELSE TopKeysFrom(text, i + 1, depth, expectKey /\ text[i] \in WhitespaceBytes)

TopKeys(text) == TopKeysFrom(text, 1, 0, FALSE)

\* The position of the first entry of v with the key, or none.
FirstWithKey(v, key) ==
    IF HasKey(v, key)
    THEN CHOOSE k \in 1..Len(v.keys) : v.keys[k] = key /\ \A j \in 1..(k - 1) : v.keys[j] # key
    ELSE NULLPTR

\* C20: an append to an object adds the entry after the entries there are and
\* changes none of them, also when the key is there already; the parser keeps
\* the keys in the order of the text; locate(key), at(key) and operator[](key)
\* refer to the first entry with the key; locate returns a null pointer
\* exactly when no entry has the key.
C20_ObjectOrderAndFirstMatch ==
    /\ Made("Object::emplace_back") =>
          /\ built.typ = "VOBJ"
          /\ Len(built.kids) = Len(call.before.kids) + 1
          /\ \A k \in 1..Len(call.before.kids) :
                built.keys[k] = call.before.keys[k] /\ built.kids[k] = call.before.kids[k]
          /\ built.keys[Len(built.keys)] = call.arg[1]
          /\ built.kids[Len(built.kids)] = call.arg[2]
    /\ (Made("read") /\ call.result = TRUE /\ built.typ = "VOBJ") =>
          built.keys = TopKeys(call.arg)
    /\ Made("locate") =>
          /\ call.result = FirstWithKey(call.before, call.arg)
          /\ call.result = NULLPTR <=> ~HasKey(call.before, call.arg)
    /\ (Made("at(key)") /\ call.error = "none") =>
          call.result = ElementRef(FirstWithKey(call.before, call.arg))
    /\ (Made("operator[](key)") /\ HasKey(call.before, call.arg)) =>
          call.result = ElementRef(FirstWithKey(call.before, call.arg))

\* locate found the first of two entries with the same key, whose value is Null.
C20_Witness ==
    /\ Made("locate")
    /\ call.before.typ = "VOBJ"
    /\ call.before.keys = <<call.arg, call.arg>>
    /\ call.before.kids[1] = NullNode
    /\ call.before.kids[2] # NullNode
    /\ call.result = 1

-----------------------------------------------------------------------------
(* Two UniValue objects: comparison, copy and move *)

\* The objects a and b of the program: a is node 1 and b is node 2; the
\* elements their vectors own are the nodes after them.
Objects == {"a", "b"}
Addr(x) == IF x = "a" THEN 1 ELSE 2
Other(x) == IF x = "a" THEN "b" ELSE "a"

\* The nodes that the nodes of S own, directly or through their elements.
RECURSIVE Owned(_, _)
Owned(ns, S) ==
    LET T == S \cup UNION { { ns[i].kids[k] : k \in 1..Len(ns[i].kids) } : i \in S }
    IN  IF T = S THEN S ELSE Owned(ns, T)

\* The nodes of `live`, in the order they have in ns.
RECURSIVE Kept(_, _, _)
Kept(ns, live, i) ==
    IF i > Len(ns) THEN <<>>
    ELSE (IF i \in live THEN <<i>> ELSE <<>>) \o Kept(ns, live, i + 1)

\* The nodes of ns in the given order, their elements renumbered with them.
InOrder(ns, order) ==
    [i \in 1..Len(order) |->
        [ns[order[i]] EXCEPT
            !.kids = [m \in 1..Len(@) |-> CHOOSE j \in 1..Len(order) : order[j] = @[m]]]]

\* destruct(), ~Object(), ~Array(): the elements no object owns any more are
\* freed; the nodes that are left keep their order.
Release(ns) == InOrder(ns, Kept(ns, Owned(ns, {Addr("a"), Addr("b")}), 1))

\* A vector copy that hands out the elements of the source instead of copies.
CopyElements_Shared(ns, kids) == [nodes |-> ns, kids |-> kids]

\* Object(const Object&) / Array(const Array&), i.e. std::vector's copy: every
\* element is copy-constructed, with its own elements, into new storage.
RECURSIVE CopyElements(_, _)
CopyElements(ns, kids) ==
    IF kids = <<>> THEN [nodes |-> ns, kids |-> <<>>]
    ELSE LET front_ == CopyElements(ns, SubSeq(kids, 1, Len(kids) - 1))
             at     == Len(front_.nodes) + 1
         IN  [nodes |-> front_.nodes \o Shift(ToHeap(ToValue(ns, kids[Len(kids)])), at - 1),
              kids  |-> Append(front_.kids, at)]

\* UniValue(const UniValue& o) and operator=(const UniValue& o) for dst and o:
\* the type, the string and the keys are copied and the elements are copies;
\* what dst held is destroyed.
CopyFrom(ns, dst, o) ==
    LET c == CopyElements(ns, ns[o].kids)
    IN  Release([c.nodes EXCEPT ![dst] = [ns[o] EXCEPT !.kids = c.kids]])

\* What std::move leaves of the string and the vector of a UniValue: both are
\* empty, and the type is as it was.
MovedFrom(n) == [n EXCEPT !.val = <<>>, !.keys = <<>>, !.kids = <<>>]

\* UniValue(UniValue&& o) and operator=(UniValue&& o) for dst and o: dst takes
\* the type and the storage of o; what dst held is destroyed.
MoveFrom(ns, dst, o) == Release([ns EXCEPT ![dst] = ns[o], ![o] = MovedFrom(ns[o])])

\* An assignment that makes the object at x the childless value v.
AssignTo(ns, x, v) == Release([ns EXCEPT ![x] = v])

\* push_back(const UniValue& e) on the vector of the node x: the new last
\* element is a copy of e.
PushBackTo(ns, x, e) ==
    [ns \o Shift(ToHeap(e), Len(ns)) EXCEPT ![x].kids = Append(@, Len(ns) + 1)]

\* emplace_back(key, e) on the entries of the node x.
EmplaceBackTo(ns, x, key, e) ==
    [PushBackTo(ns, x, e) EXCEPT ![x].keys = Append(@, key)]

\* The order in which a walk from a and then from b first meets the nodes.
RECURSIVE Visit(_, _, _)
Visit(ns, todo, seen) ==
    IF todo = <<>> THEN seen
    ELSE IF \E i \in 1..Len(seen) : seen[i] = Head(todo) THEN Visit(ns, Tail(todo), seen)
    ELSE Visit(ns, ns[Head(todo)].kids \o Tail(todo), Append(seen, Head(todo)))

\* The addresses of the elements are no part of the state of a and b: the nodes
\* are kept in the order of the walk, whichever calls allocated them.
Placed(ns) ==
    InOrder(ns, Visit(ns, ns[Addr("a")].kids \o ns[Addr("b")].kids, <<Addr("a"), Addr("b")>>))

\* What is appended to a and b.
CopyNumStrs == { Bytes(<<"1">>), Bytes(<<"1", ".", "0">>) }
CopyElementsIn == { NullNode, setArray }
CopyKeys == { Bytes(<<"a">>), Bytes(<<"b">>) }

\* The variables no call on a or b touches.
objRest ==
    <<writer, raw, size, buffer, lexed, tokenVal, tok, last_tok, expectMask, stack, ret, errpos,
      strOk, strErrpos, built, prettyIndent, out>>

\* The values of a and b.
ValuesOf(ns) == [a |-> ToValue(ns, Addr("a")), b |-> ToValue(ns, Addr("b"))]

\* The call op is made on (or into) the object x; it returns res and leaves the
\* objects as `after`.
Acted(op, x, arg, res, after) ==
    /\ call' = [op |-> op, arg |-> <<x, arg>>, before |-> ValuesOf(nodes), result |-> res,
                error |-> "none", what |-> ""]
    /\ nodes' = Placed(after)
    /\ pc' = "acted"
    /\ UNCHANGED objRest

\* x.setNull()
ObjSetNull ==
    /\ pc = "objects"
    /\ \E x \in Objects : Acted("setNull", x, <<>>, <<>>, AssignTo(nodes, Addr(x), NullNode))

\* x = true
ObjAssignBool ==
    /\ pc = "objects"
    /\ \E x \in Objects :
          Acted("operator=(bool)", x, TRUE, <<>>, AssignTo(nodes, Addr(x), AssignBool(TRUE)))

\* x.setNumStr(str)
ObjSetNumStr ==
    /\ pc = "objects"
    /\ \E x \in Objects, str \in CopyNumStrs :
          Acted("setNumStr", x, str, <<>>,
                AssignTo(nodes, Addr(x), setNumStr(nodes[Addr(x)], str)))

\* x = "1"
ObjAssignString ==
    /\ pc = "objects"
    /\ \E x \in Objects :
          Acted("operator=(string)", x, Bytes(<<"1">>), <<>>,
                AssignTo(nodes, Addr(x), AssignString(Bytes(<<"1">>))))

\* x.setArray()
ObjSetArray ==
    /\ pc = "objects"
    /\ \E x \in Objects : Acted("setArray", x, <<>>, <<>>, AssignTo(nodes, Addr(x), setArray))

\* x.setObject()
ObjSetObject ==
    /\ pc = "objects"
    /\ \E x \in Objects : Acted("setObject", x, <<>>, <<>>, AssignTo(nodes, Addr(x), setObject))

\* x.get_array().push_back(e)
ObjArrayPushBack ==
    /\ pc = "objects"
    /\ \E x \in Objects, e \in CopyElementsIn :
          /\ is(nodes[Addr(x)], {"VARR"})
          /\ Len(nodes[Addr(x)].kids) < MaxEntries
          /\ Acted("Array::push_back", x, e, <<>>, PushBackTo(nodes, Addr(x), e))

\* x.get_obj().emplace_back(key, UniValue())
ObjObjectPushBack ==
    /\ pc = "objects"
    /\ \E x \in Objects, key \in CopyKeys :
          /\ is(nodes[Addr(x)], {"VOBJ"})
          /\ Len(nodes[Addr(x)].kids) < MaxEntries
          /\ Acted("Object::emplace_back", x, key, <<>>,
                   EmplaceBackTo(nodes, Addr(x), key, NullNode))

\* x.get_array().back().get_array().push_back(UniValue()): an append to the
\* array nested in x.
ObjNestedPushBack ==
    /\ pc = "objects"
    /\ \E x \in Objects :
          /\ is(nodes[Addr(x)], {"VARR"})
          /\ nodes[Addr(x)].kids # <<>>
          /\ is(nodes[LastKid(nodes[Addr(x)])], {"VARR"})
          /\ nodes[LastKid(nodes[Addr(x)])].kids = <<>>
          /\ Acted("nested push_back", x, NullNode, <<>>,
                   PushBackTo(nodes, LastKid(nodes[Addr(x)]), NullNode))

\* UniValue x(o): x is constructed in the place of the x there was.
ObjCopyConstruct ==
    /\ pc = "objects"
    /\ \E x \in Objects :
          Acted("UniValue(const UniValue&)", x, <<>>, <<>>,
                CopyFrom(nodes, Addr(x), Addr(Other(x))))

\* x = o
ObjCopyAssign ==
    /\ pc = "objects"
    /\ \E x \in Objects :
          Acted("operator=(const UniValue&)", x, <<>>, <<>>,
                CopyFrom(nodes, Addr(x), Addr(Other(x))))

\* UniValue x(std::move(o))
ObjMoveConstruct ==
    /\ pc = "objects"
    /\ \E x \in Objects :
          Acted("UniValue(UniValue&&)", x, <<>>, <<>>, MoveFrom(nodes, Addr(x), Addr(Other(x))))

\* x = std::move(o)
ObjMoveAssign ==
    /\ pc = "objects"
    /\ \E x \in Objects :
          Acted("operator=(UniValue&&)", x, <<>>, <<>>,
                MoveFrom(nodes, Addr(x), Addr(Other(x))))

\* x == o
ObjEquals ==
    /\ pc = "objects"
    /\ \E x \in Objects :
          Acted("operator==", x, <<>>,
                UniValueEq(ValuesOf(nodes)[x], ValuesOf(nodes)[Other(x)]), nodes)

\* The call has returned and the program goes on to its next call.
ObjReturn ==
    /\ pc = "acted"
    /\ pc' = "objects"
    /\ call' = NoCall
    /\ UNCHANGED nodes
    /\ UNCHANGED objRest

NextCopy ==
    \/ ObjReturn
    \/ ObjSetNull \/ ObjAssignBool \/ ObjSetNumStr \/ ObjAssignString \/ ObjSetArray
    \/ ObjSetObject \/ ObjArrayPushBack \/ ObjObjectPushBack \/ ObjNestedPushBack
    \/ ObjCopyConstruct \/ ObjCopyAssign \/ ObjMoveConstruct \/ ObjMoveAssign \/ ObjEquals

\* UniValue a, b;
InitCopy ==
    /\ raw = <<0>>
    /\ size = 0
    /\ buffer = 1
    /\ lexed = NoToken
    /\ tokenVal = <<>>
    /\ tok = "JTOK_NONE"
    /\ last_tok = "JTOK_NONE"
    /\ expectMask = {}
    /\ stack = <<>>
    /\ nodes = <<NullNode, NullNode>>
    /\ pc = "objects"
    /\ ret = NULLPTR
    /\ errpos = NULLPTR
    /\ strOk = FALSE
    /\ strErrpos = NPOS
    /\ built = NoValue
    /\ call = NoCall
    /\ prettyIndent = 0
    /\ out = <<>>
    /\ writer = NewFilter(<<>>)

SpecCopy == InitCopy /\ [][NextCopy]_vars

-----------------------------------------------------------------------------
(* C21 - C23: comparison, copy and move *)

\* The call op has just been made on a or b.
Did(op) == pc = "acted" /\ call.op = op

\* The object the last call was made on, the other one, and their values before
\* the call and now.
Callee == call.arg[1]
BeforeOf(x) == call.before[x]
NowOf(x) == ValuesOf(nodes)[x]

\* The entries of the object v as a bag of <<key, value>> pairs.
EntriesBag(v) ==
    LET pairs == { <<v.keys[k], v.kids[k]>> : k \in 1..Len(v.kids) }
    IN  [e \in pairs |-> Cardinality({ k \in 1..Len(v.kids) : <<v.keys[k], v.kids[k]>> = e })]

\* C21: a == b holds exactly when a and b have the same type and, for
\* Number/String, identical text, and for Object/Array the same length with
\* equal keys and values at every position; two objects holding the same
\* key/value pairs in different orders compare unequal.
C21_EqualityIsStructural ==
    Did("operator==") =>
        LET a == BeforeOf(Callee)
            b == BeforeOf(Other(Callee))
        IN  /\ call.result =
                  (/\ a.typ = b.typ
                   /\ a.typ \in {"VNUM", "VSTR"} => a.val = b.val
                   /\ a.typ \in {"VOBJ", "VARR"} =>
                         /\ Len(a.kids) = Len(b.kids)
                         /\ \A k \in 1..Len(a.kids) : a.kids[k] = b.kids[k]
                   /\ a.typ = "VOBJ" => a.keys = b.keys)
            /\ (/\ a.typ = "VOBJ" /\ b.typ = "VOBJ"
                /\ EntriesBag(a) = EntriesBag(b)
                /\ a.keys # b.keys) => call.result = FALSE

\* C21 happens: {"a":null,"b":null} was compared with {"b":null,"a":null}.
C21_Witness ==
    /\ Did("operator==")
    /\ BeforeOf("a").typ = "VOBJ"
    /\ BeforeOf("a").keys = <<Bytes(<<"a">>), Bytes(<<"b">>)>>
    /\ BeforeOf("b").typ = "VOBJ"
    /\ BeforeOf("b").keys = <<Bytes(<<"b">>), Bytes(<<"a">>)>>
    /\ call.result = FALSE

\* The calls that copy the other object into the callee, those that move it,
\* and those that change the callee alone.
Copies == {"UniValue(const UniValue&)", "operator=(const UniValue&)"}
Moves == {"UniValue(UniValue&&)", "operator=(UniValue&&)"}
Mutations ==
    {"setNull", "operator=(bool)", "setNumStr", "operator=(string)", "setArray", "setObject",
     "Array::push_back", "Object::emplace_back", "nested push_back"}

\* C22: after B is copied from A, B equals A and A is as it was; and every
\* mutation of one of the two objects, appends to its nested array included,
\* leaves the other one unchanged.
C22_CopyIsDeep ==
    /\ (pc = "acted" /\ call.op \in Copies) =>
          /\ NowOf(Callee) = BeforeOf(Other(Callee))
          /\ NowOf(Other(Callee)) = BeforeOf(Other(Callee))
          /\ UniValueEq(NowOf("a"), NowOf("b"))
    /\ (pc = "acted" /\ call.op \in Mutations) =>
          NowOf(Other(Callee)) = BeforeOf(Other(Callee))

\* C22 happens: a and b held the same array with an empty array in it, a's
\* nested array was appended to, and b is as before.
C22_Witness ==
    /\ Did("nested push_back")
    /\ Callee = "a"
    /\ BeforeOf("a") = BeforeOf("b")
    /\ NowOf("b") = BeforeOf("b")
    /\ NowOf("a") # NowOf("b")

\* A value holding nothing: Null, an empty object, an empty array or an empty
\* string.
HoldsNothing(v) ==
    \/ v.typ = "VNULL"
    \/ v.typ \in {"VOBJ", "VARR"} /\ v.kids = <<>>
    \/ v.typ = "VSTR" /\ v.val = <<>>

\* C23: after a value is moved into another, the destination equals the
\* source's former contents and the source holds no content (it is Null, or
\* an empty container or string).
C23_MoveLeavesSourceEmpty ==
    (pc = "acted" /\ call.op \in Moves) =>
        /\ NowOf(Callee) = BeforeOf(Other(Callee))
        /\ HoldsNothing(NowOf(Other(Callee)))

-----------------------------------------------------------------------------
(* C24: read() and what the target held before *)

\* The do-loop of read() run to its end on the buffer mem, from the cursor and
\* the state given: what read(const char*) returns and the objects it leaves.
RECURSIVE RunLoop(_, _, _, _, _, _)
RunLoop(mem, cursor, tk, mask, stk, ns) ==
    LET t == getJsonToken(mem, cursor)
        r == Iteration(t, tk, mask, stk, ns)
    IN  IF r.fail \/ r.ub THEN [ret |-> NULLPTR, nodes |-> r.nodes]
        ELSE IF r.stack = <<>>
             THEN [ret |-> TrailingResult(getJsonToken(mem, t.buffer)), nodes |-> r.nodes]
        ELSE RunLoop(mem, t.buffer, t.tok, r.expectMask, r.stack, r.nodes)

\* What read(text) returns and leaves when the target is Null before the call.
ReadIntoNull(text) ==
    LET run == RunLoop(text \o <<0>>, 1, "JTOK_NONE", {}, <<>>, <<NullNode>>)
    IN  [ok |-> ConsumedAll(run.ret, Len(text)), value |-> ToValue(run.nodes, 1)]

\* C24: read first resets the target to Null, so whether read(text) succeeds
\* and the value it leaves are the same for every value the target held before
\* the call: they are those of read(text) on a Null target.
C24_ReadIgnoresPriorValue ==
    Made("read") =>
        /\ call.result = ReadIntoNull(call.arg).ok
        /\ built = ReadIntoNull(call.arg).value

\* C24 happens: "]" was read into an object with MaxEntries entries; the read
\* failed and the object is gone.
C24_Witness ==
    /\ Made("read")
    /\ call.arg = Bytes(<<"]">>)
    /\ call.before.typ = "VOBJ"
    /\ Len(call.before.kids) = MaxEntries
    /\ call.result = FALSE
    /\ built = NullNode

-----------------------------------------------------------------------------
(* C25: what a failed read() leaves in the target *)

\* The type the first token of a document gives the target: a delimiter that
\* opens a container, or a scalar; no other token assigns anything.
TypeOfFirstToken(mem) ==
    LET t == getJsonToken(mem, 1).tok
    IN  IF t = "JTOK_OBJ_OPEN" THEN "VOBJ"
        ELSE IF t = "JTOK_ARR_OPEN" THEN "VARR"
        ELSE IF t = "JTOK_NUMBER" THEN "VNUM"
        ELSE IF t = "JTOK_STRING" THEN "VSTR"
        ELSE IF t = "JTOK_KW_TRUE" THEN "VTRUE"
        ELSE IF t = "JTOK_KW_FALSE" THEN "VFALSE"
        ELSE "VNULL"

\* C25 as stated: when read fails, the target is not left holding containers
\* or elements built from the prefix of the input consumed before the failure.
C25_NoPartialDocument ==
    (pc = "done" /\ ~strOk) => nodes[1].typ \notin {"VOBJ", "VARR"}

\* C25, amended: a failed read does not clear the target again; the target is
\* left with what was built from the input before the failure.  Its type is
\* the one the first token gave it: a container for an opening delimiter, the
\* scalar's type for a scalar, and Null for every other first token.
C25_FailedReadKeepsWhatWasBuilt ==
    (pc = "done" /\ ~strOk) => nodes[1].typ = TypeOfFirstToken(raw)

\* C25 happens: read of "[1," failed and the target is the array [1].
C25_Witness ==
    /\ pc = "done"
    /\ ~strOk
    /\ raw = Bytes(<<"[", "1", ",">>) \o <<0>>
    /\ ToValue(nodes, 1) = ArrayOf(<<Node("VNUM", Bytes(<<"1">>))>>)

-----------------------------------------------------------------------------
(* C26: what the two read() overloads report *)

\* The position of the NUL that terminates the C string in the buffer.
FirstNul(mem) == CHOOSE i \in 1..Len(mem) : mem[i] = 0 /\ \A j \in 1..(i - 1) : mem[j] # 0

\* C26: read(const char*, errpos) returns a pointer to the terminating NUL and
\* sets *errpos to nullptr on success, and returns nullptr and sets *errpos to
\* a position inside the input on failure; read(const std::string&, errpos)
\* sets *errpos to npos exactly when it returns true and to an offset in
\* [0, raw.size()] when it returns false, which is the offset of the first NUL
\* when the failure is an embedded NUL.
C26_ErrposReported ==
    /\ pc \in {"strret", "done"} =>
          IF ret # NULLPTR
          THEN ret = FirstNul(raw) /\ errpos = NULLPTR
          ELSE errpos \in 1..FirstNul(raw)
    /\ pc = "done" =>
          /\ strErrpos = NPOS <=> strOk
          /\ ~strOk => strErrpos \in 0..size
          /\ (~strOk /\ ret # NULLPTR) => strErrpos = FirstNul(raw) - 1

\* C26 happens: the text before an embedded NUL was a complete document, and
\* the offset reported is that of the NUL.
C26_Witness ==
    /\ pc = "done"
    /\ ~strOk
    /\ ret # NULLPTR
    /\ errpos = NULLPTR
    /\ strErrpos = ret - 1
    /\ strErrpos > 0
    /\ strErrpos < size

-----------------------------------------------------------------------------
(* Strings and keys written out: every byte value, alone and in pairs *)

\* The bytes put next to one another: one of each kind jsonEscape tells apart.
EscapePairBytes == { 0, 8, 31, 34, 47, 92, 97, 127, 128, 195, 169, 255 }

EscapeTexts ==
    { <<b>> : b \in 0..255 } \cup (EscapePairBytes \X EscapePairBytes) \cup Strs

\* out = UniValue::stringify(v) for a string v
StringifyText ==
    /\ pc = "built"
    /\ built.typ = "VSTR"
    /\ out' = Stringify(built, prettyIndent, 0)
    /\ pc' = "written"
    /\ UNCHANGED <<writer, raw, size, buffer, lexed, tokenVal, tok, last_tok, expectMask, stack, nodes,
                   ret, errpos, strOk, strErrpos, built, call, prettyIndent>>

\* out = UniValue::stringify(v) for an object v of one entry
StringifyKey ==
    /\ pc = "built"
    /\ built.typ = "VOBJ"
    /\ out' = Stringify(built, prettyIndent, 0)
    /\ pc' = "written"
    /\ UNCHANGED <<writer, raw, size, buffer, lexed, tokenVal, tok, last_tok, expectMask, stack, nodes,
                   ret, errpos, strOk, strErrpos, built, call, prettyIndent>>

NextEscape == StringifyText \/ StringifyKey

InitEscape ==
    \E text \in EscapeTexts :
        \/ EnterStringify(AssignString(text), 0)
        \/ EnterStringify(ObjectOf(<< <<text, NullNode>> >>), 0)

SpecEscape == InitEscape /\ [][NextEscape]_vars

-----------------------------------------------------------------------------
(* C27: what jsonEscape writes for each byte *)

\* The two-character escapes, as the byte after the backslash.
ShortEscapeOf(b) ==
    CASE b = 8 -> C("b") [] b = 9 -> C("t") [] b = 10 -> C("n") [] b = 12 -> C("f")
      [] b = 13 -> C("r") [] b = 34 -> C("\"") [] b = 92 -> C("\\")

LowerHex == Bytes(<<"0", "1", "2", "3", "4", "5", "6", "7", "8", "9", "a", "b", "c", "d", "e", "f">>)

\* What the output holds in place of the byte b.
EscapedByte(b) ==
    IF b \in {8, 9, 10, 12, 13, 34, 92} THEN <<C("\\"), ShortEscapeOf(b)>>
    ELSE IF b \in 0..31 \cup {127}
         THEN <<C("\\"), C("u"), C("0"), C("0"), LowerHex[(b \div 16) + 1], LowerHex[(b % 16) + 1]>>
    ELSE <<b>>

EscapedText(text) == Flatten([i \in 1..Len(text) |-> EscapedByte(text[i])])

\* The text whose escaping is in out: the string itself, or the key of the object.
TextWritten == IF built.typ = "VSTR" THEN built.val ELSE built.keys[1]

\* The bytes of out between the quotes around the string or the key.
OutBetweenQuotes ==
    IF built.typ = "VSTR" THEN SubSeq(out, 2, Len(out) - 1)
    ELSE SubSeq(out, 3, Len(out) - 7)

\* C27: in the output of stringify, each of the bytes 0x00-0x1F, the quote, the
\* backslash and 0x7F of a string or key is replaced by its escape (the two-character
\* escape for backspace, tab, line feed, form feed, carriage return, quote and
\* backslash, the six-character \u00XX for the others), and every other byte, bytes
\* of multi-byte UTF-8 included, is written as it is.
C27_EscapesByByte ==
    pc = "written" => OutBetweenQuotes = EscapedText(TextWritten)

C27_Witness ==
    /\ pc = "written"
    /\ TextWritten = <<127, 195>>
    /\ OutBetweenQuotes = Bytes(<<"\\", "u", "0", "0", "7", "f">>) \o <<195>>

-----------------------------------------------------------------------------
(* C28: the layout of compact and of pretty-printed output *)

\* The value whose text is in out.
Written == IF HasBuilt THEN built ELSE ToValue(nodes, 1)

HasWritten == (HasBuilt /\ pc # "built") \/ (~HasBuilt /\ pc = "written")

\* A line break followed by n spaces when pretty-printing, nothing otherwise.
LineAt(N, n) == IF N > 0 THEN <<10>> \o [i \in 1..n |-> 32] ELSE <<>>

KeyValueSeparator(N) == IF N > 0 THEN Bytes(<<":", " ">>) ELSE Bytes(<<":">>)

RECURSIVE JoinWithCommas(_)
JoinWithCommas(texts) ==
    IF Len(texts) = 1 THEN texts[1]
    ELSE texts[1] \o Bytes(<<",">>) \o JoinWithCommas(Tail(texts))

\* The text of the value v at nesting depth d with pretty-indent N: a scalar as in
\* compact form; a non-empty container with each entry on a line of its own at
\* (d + 1) * N spaces and the closing delimiter on a line of its own at d * N spaces.
\* An empty container is its two delimiters when closed is TRUE, and is taken as
\* stringify writes it when closed is FALSE.
RECURSIVE Layout(_, _, _, _)
Layout(v, N, d, closed) ==
    IF v.typ \notin {"VOBJ", "VARR"} THEN Stringify(v, 0, 0)
    ELSE IF v.kids = <<>> /\ ~closed THEN Stringify(v, N, d * N)
    ELSE Bytes(<<IF v.typ = "VOBJ" THEN "{" ELSE "[">>)
            \o (IF v.kids = <<>> THEN <<>>
                ELSE JoinWithCommas([k \in 1..Len(v.kids) |->
                        LineAt(N, (d + 1) * N)
                            \o (IF v.typ = "VOBJ"
                                THEN StringifyString(v.keys[k]) \o KeyValueSeparator(N)
                                ELSE <<>>)
                            \o Layout(v.kids[k], N, d + 1, closed)])
                     \o LineAt(N, d * N))
            \o Bytes(<<IF v.typ = "VOBJ" THEN "}" ELSE "]">>)

LaidOut(v, N, d) == Layout(v, N, d, FALSE)

\* C28: with pretty-indent 0 the entries of an object or array are separated by ','
\* and key and value by ':', with no whitespace between them; with pretty-indent
\* N > 0 every entry of a non-empty container starts on a new line indented by its
\* nesting depth times N spaces, key and value are separated by ': ', and the closing
\* delimiter is on a line of its own at the indent of the container's line; a scalar
\* is written the same in both modes.
C28_PrettyLayout ==
    HasWritten => out = LaidOut(Written, prettyIndent, 0)

C28_Witness ==
    /\ HasWritten
    /\ prettyIndent = 2
    /\ built = ObjectOf(<< <<Bytes(<<"a">>), ArrayOf(<<AssignBool(TRUE)>>)>> >>)
    /\ out = Bytes(<<"{">>) \o <<10>> \o Bytes(<<" ", " ", "\"", "a", "\"", ":", " ", "[">>)
                \o <<10>> \o Bytes(<<" ", " ", " ", " ", "t", "r", "u", "e">>)
                \o <<10>> \o Bytes(<<" ", " ", "]">>) \o <<10>> \o Bytes(<<"}">>)

-----------------------------------------------------------------------------
(* C29: empty containers in pretty-printed output *)

RECURSIVE HasEmptyContainer(_)
HasEmptyContainer(v) ==
    /\ v.typ \in {"VOBJ", "VARR"}
    /\ (v.kids = <<>> \/ \E k \in 1..Len(v.kids) : HasEmptyContainer(v.kids[k]))

\* C29: with a pretty-indent above 0 an empty object is written as {} and an empty
\* array as [] at every nesting level, with nothing between the delimiters.
C29_EmptyContainersClosed ==
    (HasWritten /\ prettyIndent > 0 /\ HasEmptyContainer(Written))
        => out = Layout(Written, prettyIndent, 0, TRUE)

-----------------------------------------------------------------------------
(* C30: where a comma is accepted *)

ClosingTokens == {"JTOK_OBJ_CLOSE", "JTOK_ARR_CLOSE"}

\* The token before the one being read completed a value: it is a closing delimiter,
\* or a scalar that is not the name of an object's entry (after a name the parser
\* expects the colon).
CompletedValue ==
    \/ tok \in ClosingTokens
    \/ jsonTokenIsValue(tok) /\ "COLON" \notin expectMask

\* The name of an entry has just been read.
AfterKey == tok = "JTOK_STRING" /\ "COLON" \in expectMask

\* The iteration of the loop that reads the next token and the check after the loop.
ReadsInLoop(t) == pc = "loop" /\ tok' = t
ReadsAfterDocument(t) == pc = "trailing" /\ tok' = t

Rejects == pc' = "ret" /\ ret' = NULLPTR

\* C30: a comma is accepted only when a container is open and the token before it
\* completed a value (a scalar or a closing delimiter); a comma at top level, after
\* '[' or '{', after another comma, after a key or after a colon is rejected, and a
\* closing delimiter directly after a comma is rejected.
C30_CommaOnlyAfterValue ==
    [][ /\ ReadsInLoop("JTOK_COMMA") =>
            /\ ~Rejects => (stack # <<>> /\ CompletedValue)
            /\ (\/ stack = <<>>
                \/ tok \in {"JTOK_ARR_OPEN", "JTOK_OBJ_OPEN", "JTOK_COMMA", "JTOK_COLON"}
                \/ AfterKey) => Rejects
        /\ ReadsAfterDocument("JTOK_COMMA") => Rejects
        /\ (pc = "loop" /\ tok = "JTOK_COMMA" /\ tok' \in ClosingTokens) => Rejects
      ]_vars

C30_Witness ==
    /\ pc = "loop"
    /\ tok = "JTOK_COMMA"
    /\ last_tok = "JTOK_ARR_CLOSE"
    /\ Len(stack) = 1
    /\ expectMask = {"ARR_VALUE"}

-----------------------------------------------------------------------------
(* C31: the order of tokens inside an object *)

\* The innermost open container is an object.
InObject == stack # <<>> /\ nodes[stack[Len(stack)]].typ = "VOBJ"

\* The parser is where the name of an entry comes: after '{' or after a comma in
\* an object.
KeyExpected == "OBJ_NAME" \in expectMask

\* The token before the one being read was the colon of an entry.
AfterColon == tok = "JTOK_COLON" /\ InObject

\* The token before the one being read completed the value of an entry.
AfterEntryValue == InObject /\ CompletedValue /\ ~KeyExpected

\* The loop reads the token t and goes on (or finishes the document).
Accepts(t) == pc = "loop" /\ tok' = t /\ ~Rejects
ReadsToken == pc = "loop" /\ ~Rejects

\* C31: inside an object the tokens come as key, colon, one value, then comma or '}'.
\* Where a key is expected only a string is accepted (and, directly after '{', the
\* '}' of the empty object); a colon is accepted only directly after a key of the
\* innermost open object, never in an array, at top level or after a value; after
\* the colon comes a value, and after the value only a comma or '}', so that a
\* second value without a comma is rejected.
C31_ObjectTokenOrder ==
    [][ /\ (ReadsToken /\ KeyExpected) =>
              \/ tok' = "JTOK_STRING"
              \/ tok' = "JTOK_OBJ_CLOSE" /\ tok = "JTOK_OBJ_OPEN"
        /\ Accepts("JTOK_COLON") => (InObject /\ AfterKey)
        /\ (pc \in {"loop", "trailing"} /\ tok' = "JTOK_COLON" /\ ~(InObject /\ AfterKey))
              => Rejects
        /\ (ReadsToken /\ AfterKey) => tok' = "JTOK_COLON"
        /\ (ReadsToken /\ AfterColon) => isValueOpen(tok')
        /\ (ReadsToken /\ AfterEntryValue) => tok' \in {"JTOK_COMMA", "JTOK_OBJ_CLOSE"}
        /\ (pc = "loop" /\ AfterEntryValue /\ isValueOpen(tok')) => Rejects
      ]_vars

C31_Witness ==
    /\ pc = "trailing"
    /\ tok = "JTOK_OBJ_CLOSE"
    /\ last_tok = "JTOK_NUMBER"
    /\ ToValue(nodes, 1) = ObjectOf(<< <<Bytes(<<"a">>), Node("VNUM", Bytes(<<"1">>))>> >>)

-----------------------------------------------------------------------------
(* C32: the fast path of the string lexer against the slow path alone *)

\* case '"' with tryFastPath = false: every byte goes through the filter.
SlowPathAlone(mem, begin) == SlowPath(mem, begin, NewFilter(<<>>))

\* The fast path went over at least one byte and left the rest to the slow path.
HandedOver(mem, begin) ==
    LET f == FastPathParseSimpleString(mem, begin)
    IN  f.res = "NotFullyProcessed" /\ f.raw > begin

\* C32: a string lexed with the fast path enabled has the same outcome (error or
\* string token), the same cursor and, when it is a string token, the same text as
\* the string lexed by the slow path alone, also when the fast path hands a scanned
\* ASCII prefix over to the slow path.
C32_FastPathEqualsSlowPath ==
    LexedAt({34}) =>
        LET slow == SlowPathAlone(raw, TokenStart + 1)
        IN  /\ lexed.tok = slow.tok
            /\ lexed.buffer = slow.buffer
            /\ lexed.tok = "JTOK_STRING" => lexed.tokenVal = slow.tokenVal

C32_Witness ==
    /\ LexedAt({34})
    /\ HandedOver(raw, TokenStart + 1)
    /\ lexed.tok = "JTOK_STRING"
    /\ lexed.tokenVal = <<97, 10, 195, 169>>

-----------------------------------------------------------------------------
(* JSONUTF8StringFilter on its own: bytes and codepoints in any order *)

\* The bytes written: ASCII, continuation bytes, the lead bytes of 2-, 3- and 4-byte
\* sequences, and a reserved byte.
FilterBytes == { 97, 128, 169, 195, 226, 240, 248 }

\* The codepoints written: U+0041, U+00E9, U+20AC, a first and a second surrogate half.
FilterCodepoints == { 65, 233, 8364, 55348, 56606 }

\* The filter takes input while its string has fewer than MaxFilterText bytes.
MaxFilterText == 2

\* The call made on the filter, the filter before it and what it returned.
Filtered(op, arg, res, after) ==
    /\ call' = [op |-> op, arg |-> arg, before |-> writer, result |-> res, error |-> "none",
                what |-> ""]
    /\ writer' = after
    /\ pc' = "filtered"
    /\ UNCHANGED <<raw, size, buffer, lexed, tokenVal, tok, last_tok, expectMask, stack, nodes,
                   ret, errpos, strOk, strErrpos, built, prettyIndent, out>>

\* writer.push_back(ch)
FilterPushBack ==
    /\ pc = "filter"
    /\ Len(writer.str) < MaxFilterText
    /\ \E ch \in FilterBytes : Filtered("push_back", ch, <<>>, push_back(writer, ch))

\* writer.push_back_u(codepoint)
FilterPushBackU ==
    /\ pc = "filter"
    /\ Len(writer.str) < MaxFilterText
    /\ \E cp \in FilterCodepoints : Filtered("push_back_u", cp, <<>>, push_back_u(writer, cp))

\* writer.finalize(): if (state || surpair) is_valid = false; return is_valid;
FilterFinalize ==
    /\ pc = "filter"
    /\ Filtered("finalize", <<>>, finalize(writer),
                [writer EXCEPT !.is_valid = finalize(writer)])

\* The call has returned and the next one is made.
FilterReturn ==
    /\ pc = "filtered"
    /\ pc' = "filter"
    /\ call' = NoCall
    /\ UNCHANGED <<raw, size, buffer, lexed, tokenVal, tok, last_tok, expectMask, stack, nodes,
                   ret, errpos, strOk, strErrpos, built, prettyIndent, out, writer>>

NextFilter == FilterPushBack \/ FilterPushBackU \/ FilterFinalize \/ FilterReturn

\* JSONUTF8StringFilter writer(tokenVal); with tokenVal empty
InitFilter ==
    /\ raw = <<0>>
    /\ size = 0
    /\ buffer = 1
    /\ lexed = NoToken
    /\ tokenVal = <<>>
    /\ tok = "JTOK_NONE"
    /\ last_tok = "JTOK_NONE"
    /\ expectMask = {}
    /\ stack = <<>>
    /\ nodes = <<NullNode>>
    /\ pc = "filter"
    /\ ret = NULLPTR
    /\ errpos = NULLPTR
    /\ strOk = FALSE
    /\ strErrpos = NPOS
    /\ built = NoValue
    /\ call = NoCall
    /\ prettyIndent = 0
    /\ out = <<>>
    /\ writer = NewFilter(<<>>)

SpecFilter == InitFilter /\ [][NextFilter]_vars

-----------------------------------------------------------------------------
(* C33: the validity flag of the filter and finalize() *)

FilterCalled(op) == pc = "filtered" /\ call.op = op

\* C33: a call on the filter never sets a validity flag that was cleared, and
\* finalize() returns false when the flag was cleared, when a multi-byte sequence
\* still owes continuation bytes or when a first surrogate half is pending, and
\* true only when none of these holds.
C33_FilterStaysInvalid ==
    /\ (pc = "filtered" /\ ~call.before.is_valid) => ~writer.is_valid
    /\ FilterCalled("finalize") =>
          (call.result = TRUE <=>
              (call.before.is_valid /\ call.before.state = 0 /\ call.before.surpair = 0))

C33_Witness ==
    /\ FilterCalled("finalize")
    /\ call.before.is_valid
    /\ call.before.state = 0
    /\ call.before.surpair # 0
    /\ call.result = FALSE
    /\ ~writer.is_valid

-----------------------------------------------------------------------------
(* Strings of raw bytes: ASCII and the bytes UTF-8 sequences are made of *)

\* a; the continuation bytes 80, 90, A0; the lead bytes C0 (overlong), C3, E0, ED,
\* F0 and F4.
RawStringBytes == { 97, 128, 144, 160, 192, 195, 224, 237, 240, 244 }

\* A string body has up to MaxRawLen bytes.
MaxRawLen == 4

RawStringTexts == { <<34>> \o body \o <<34>> : body \in SeqsUpTo(RawStringBytes, MaxRawLen) }

InitRawString == \E text \in RawStringTexts : EnterRead(text, <<NullNode>>)

SpecRawString == InitRawString /\ [][Next]_vars

-----------------------------------------------------------------------------
(* C34: raw bytes from 0x80 on in a string *)

\* The bytes between the quotes of the document.
RawBody == SubSeq(raw, 2, size - 1)

\* C34: a string with raw bytes >= 0x80 is accepted only if they form well-formed
\* UTF-8 (no overlong encoding, no encoded surrogate, no codepoint above U+10FFFF),
\* and the String stored for an accepted string has the raw bytes as they were.
C34_OnlyWellFormedUtf8 ==
    (pc = "done" /\ strOk) => (WellFormedUtf8(RawBody) /\ Parsed = Node("VSTR", RawBody))

-----------------------------------------------------------------------------
(* C35: what the stack of read() holds *)

OpeningTokens == {"JTOK_OBJ_OPEN", "JTOK_ARR_OPEN"}

\* Every frame is a container, frame 0 is the target and each further frame is the
\* last element of the frame below it.
StackShape ==
    /\ \A k \in 1..Len(stack) : nodes[stack[k]].typ \in {"VOBJ", "VARR"}
    /\ stack # <<>> => stack[1] = 1
    /\ \A k \in 1..(Len(stack) - 1) : stack[k + 1] = LastKid(nodes[stack[k]])

\* The kind of container a closing delimiter closes.
ClosedKind(t) == IF t = "JTOK_OBJ_CLOSE" THEN "VOBJ" ELSE "VARR"

\* The last entry of the innermost open object is there and holds Null.
PlaceholderWaits ==
    /\ LastKid(nodes[stack[Len(stack)]]) # 0
    /\ nodes[LastKid(nodes[stack[Len(stack)]])] = NullNode

\* C35: at every step of a parse the stack holds only containers under
\* construction: frame 0 is the target, frame k+1 is the last child appended to
\* frame k, a frame is pushed only on an open token and popped only by a closing
\* delimiter of the kind of the top frame, and a value is written into an object
\* frame only when the object's last entry exists and holds the Null its key made.
C35_StackHoldsOpenContainers ==
    [][ /\ StackShape'
        /\ Len(stack') > Len(stack) =>
              /\ tok' \in OpeningTokens
              /\ SubSeq(stack', 1, Len(stack)) = stack
              /\ Len(stack') = Len(stack) + 1
        /\ Len(stack') < Len(stack) =>
              /\ tok' \in ClosingTokens
              /\ stack' = SubSeq(stack, 1, Len(stack) - 1)
              /\ nodes[stack[Len(stack)]].typ = ClosedKind(tok')
        /\ (pc = "loop" /\ InObject /\ ~KeyExpected /\ isValueOpen(tok') /\ ~Rejects)
              => (pc' # "ub" /\ PlaceholderWaits)
      ]_vars

C35_Witness ==
    /\ pc = "loop"
    /\ Len(stack) = 2
    /\ nodes[stack[2]].typ = "VOBJ"
    /\ tok = "JTOK_NUMBER"
    /\ nodes[LastKid(nodes[stack[2]])] = Node("VNUM", Bytes(<<"1">>))

-----------------------------------------------------------------------------
(* Documents with a NUL byte at every place of a token *)

NulBaseTexts ==
    { Bytes(<<"t", "r", "u", "e">>), Bytes(<<"f", "a", "l", "s", "e">>),
      Bytes(<<"n", "u", "l", "l">>), Bytes(<<"-", "1", "0", ".", "5", "e", "+", "1">>),
      Bytes(<<"0", ".", "5", "E", "1">>),
      Bytes(<<"\"", "a", "\\", "u", "0", "0", "e", "9", "\\", "n", "\"">>),
      Bytes(<<"\"", "a">>) \o <<195, 169>> \o Bytes(<<"\\", "\"", "\"">>),
      Bytes(<<"\"", "a", "b", "\"">>),
      Bytes(<<"[", "1", ",", " ", "\"", "a", "\"", "]">>),
      Bytes(<<"{", "\"", "a", "\"", ":", "n", "u", "l", "l", "}">>) }

\* The text t with a NUL byte put in after its first i bytes.
WithNulAt(t, i) == SubSeq(t, 1, i) \o <<0>> \o SubSeq(t, i + 1, Len(t))

NulDocuments == UNION { { WithNulAt(t, i) : i \in 0..Len(t) } : t \in NulBaseTexts }

InitNul == \E text \in NulDocuments : EnterRead(text, <<NullNode>>)

SpecNul == InitNul /\ [][Next]_vars

-----------------------------------------------------------------------------
(* C36: the cursor and the first NUL byte *)

\* The buffer up to its first NUL byte; there is nothing to read after it.
UpToNul(mem) == SubSeq(mem, 1, FirstNul(mem))

\* C36: the cursor is never advanced past the first NUL byte of the input, and no
\* byte after it is read: every token is what the tokenizer gives on the input cut
\* off after the NUL, and so are the cursor returned and the error position.
C36_NeverPastNul ==
    /\ buffer <= FirstNul(raw)
    /\ lexed.begin >= 1 =>
          /\ lexed.buffer <= FirstNul(raw)
          /\ getJsonToken(UpToNul(raw), lexed.begin) =
                [tok |-> lexed.tok, tokenVal |-> lexed.tokenVal, buffer |-> lexed.buffer]
    /\ ret # NULLPTR => ret <= FirstNul(raw)
    /\ errpos # NULLPTR => errpos <= FirstNul(raw)

C36_Witness ==
    /\ pc = "done"
    /\ raw = Bytes(<<"\"", "a", "\\", "u", "0", "0">>) \o <<0>> \o Bytes(<<"e", "9", "\\", "n", "\"">>) \o <<0>>
    /\ lexed.tok = "JTOK_ERR"
    /\ lexed.buffer = FirstNul(raw)
    /\ errpos = FirstNul(raw)

-----------------------------------------------------------------------------
(* C37: read() terminates *)

\* read() is run to its end: a step that can be taken is taken.
SpecLive == Init /\ [][Next]_vars /\ WF_vars(Next)

\* C37: read() terminates on every NUL-terminated input: an iteration of the parse
\* loop that does not return consumes at least one byte, the cursor stays within
\* the input, and so every read comes to its end.
C37_ReadTerminates ==
    /\ [][(pc = "loop" /\ pc' = "loop") => buffer' > buffer]_vars
    /\ [](buffer \in 1..Len(raw))
    /\ <>(pc = "done")

C37_Witness ==
    /\ pc = "done"
    /\ strOk
    /\ raw = Bytes(<<"{", "\"", "a", "\"", ":", "1", ",", "\"", "b", "\"", ":", "[", "1", ",", "{", "}", "]", "}">>) \o <<0>>
    /\ buffer = Len(raw)

-----------------------------------------------------------------------------
(* The union-based UniValue: typ, constructed and the members of u *)

\* In SpecUnion the objects a and b are nodes[1] and nodes[2], each with the
\* fields of the class: typ, constructed and the members val, entries and values
\* of the union u (empty when not alive); elements are held in place.

\* The types whose value lives in a member of u.
Constructible == {"VNUM", "VSTR", "VOBJ", "VARR"}

\* An object whose member initialisers have run: typ(initialType), constructed =
\* false, no member of u alive.
Unconstructed(initialType) ==
    [typ |-> initialType, constructed |-> FALSE, val |-> <<>>, entries |-> <<>>, values |-> <<>>]

\* The outcome of a member function: ok is false if one of its asserts failed.
Outcome(ok, u) == [ok |-> ok, u |-> u]

\* void construct()
construct(u) ==
    Outcome(~u.constructed,
            IF u.typ \in Constructible
            THEN [u EXCEPT !.constructed = TRUE, !.val = <<>>, !.entries = <<>>, !.values = <<>>]
            ELSE u)

\* void construct(const std::string& s) / construct(std::string&& s)
construct_val(u, s) ==
    Outcome(~u.constructed,
            IF u.typ \in {"VNUM", "VSTR"}
            THEN [u EXCEPT !.val = s, !.constructed = TRUE]
            ELSE [u EXCEPT !.typ = "VNULL"])

\* void construct(const Object& o) / construct(Object&& o)
construct_entries(u, o) ==
    Outcome(~u.constructed,
            IF u.typ = "VOBJ"
            THEN [u EXCEPT !.entries = o, !.constructed = TRUE]
            ELSE [u EXCEPT !.typ = "VNULL"])

\* void construct(const Array& a) / construct(Array&& a)
construct_values(u, a) ==
    Outcome(~u.constructed,
            IF u.typ = "VARR"
            THEN [u EXCEPT !.values = a, !.constructed = TRUE]
            ELSE [u EXCEPT !.typ = "VNULL"])

\* A destruct() without the clean-up at scope end.
destruct_NoCleanup(u) == [u EXCEPT !.val = <<>>, !.entries = <<>>, !.values = <<>>]

\* void destruct(): the member alive is destroyed; at scope end typ = VNULL and
\* constructed = false.
destruct(u) ==
    [u EXCEPT !.typ = "VNULL", !.constructed = FALSE,
              !.val = <<>>, !.entries = <<>>, !.values = <<>>]

\* UniValue(const UniValue& o); the vectors copy-construct their elements.
RECURSIVE UniValueCopy(_)
UniValueCopy(o) ==
    LET this  == Unconstructed(o.typ)
        vals  == [k \in 1..Len(o.values) |-> UniValueCopy(o.values[k])]
        ents  == [k \in 1..Len(o.entries) |-> UniValueCopy(o.entries[k][2])]
        c     == CASE o.typ \in {"VNUM", "VSTR"} -> construct_val(this, o.val)
                   [] o.typ = "VOBJ" ->
                        construct_entries(this,
                            [k \in 1..Len(ents) |-> <<o.entries[k][1], ents[k].u>>])
                   [] o.typ = "VARR" ->
                        construct_values(this, [k \in 1..Len(vals) |-> vals[k].u])
                   [] OTHER -> Outcome(TRUE, this)
    IN  Outcome(/\ o.typ \in Constructible => o.constructed
                /\ c.ok
                /\ \A k \in 1..Len(vals) : vals[k].ok
                /\ \A k \in 1..Len(ents) : ents[k].ok,
                c.u)

\* What std::move leaves of a string or a vector: it is empty.
MovedOut(o) == [o EXCEPT !.val = <<>>, !.entries = <<>>, !.values = <<>>]

\* UniValue(UniValue&& o): `from` is what is left of o.
UniValueMove(o) ==
    LET this == Unconstructed(o.typ)
        c    == CASE o.typ \in {"VNUM", "VSTR"} -> construct_val(this, o.val)
                  [] o.typ = "VOBJ" -> construct_entries(this, o.entries)
                  [] o.typ = "VARR" -> construct_values(this, o.values)
                  [] OTHER -> Outcome(TRUE, this)
    IN  [ok |-> (o.typ \in Constructible => o.constructed) /\ c.ok,
         u |-> c.u,
         from |-> IF o.typ \in Constructible THEN MovedOut(o) ELSE o]

\* The outcome of an assignment between the objects of ns.
Assigned(ok, ns) == [ok |-> ok, ns |-> ns]

\* UniValue& operator=(const UniValue& o) on ns[this] with o = ns[o]; this and o
\* may be the same object.
operatorAssignCopy(ns, this, o) ==
    IF ns[this].typ # ns[o].typ \/ ~ns[this].constructed
    THEN LET d == [ns EXCEPT ![this] = destruct(@)]
             t == [d EXCEPT ![this].typ = d[o].typ]
             e == UniValueCopy(t[o])
             c == CASE t[this].typ \in {"VNUM", "VSTR"} -> construct_val(t[this], t[o].val)
                    [] t[this].typ = "VOBJ" -> construct_entries(t[this], e.u.entries)
                    [] t[this].typ = "VARR" -> construct_values(t[this], e.u.values)
                    [] OTHER -> Outcome(TRUE, t[this])
         IN  Assigned((t[this].typ \in Constructible => t[o].constructed /\ e.ok) /\ c.ok,
                      [t EXCEPT ![this] = c.u])
    ELSE LET e == UniValueCopy(ns[o])
         IN  Assigned(ns[this].typ \in Constructible => ns[o].constructed /\ e.ok,
                      CASE ns[this].typ \in {"VNUM", "VSTR"} ->
                               [ns EXCEPT ![this].val = ns[o].val]
                        [] ns[this].typ = "VOBJ" -> [ns EXCEPT ![this].entries = e.u.entries]
                        [] ns[this].typ = "VARR" -> [ns EXCEPT ![this].values = e.u.values]
                        [] OTHER -> ns)

\* UniValue& operator=(UniValue&& o) for two different objects this and o.
operatorAssignMove(ns, this, o) ==
    IF ns[this].typ # ns[o].typ \/ ~ns[this].constructed
    THEN LET d == [ns EXCEPT ![this] = destruct(@)]
             t == [d EXCEPT ![this].typ = d[o].typ]
             c == CASE t[this].typ \in {"VNUM", "VSTR"} -> construct_val(t[this], t[o].val)
                    [] t[this].typ = "VOBJ" -> construct_entries(t[this], t[o].entries)
                    [] t[this].typ = "VARR" -> construct_values(t[this], t[o].values)
                    [] OTHER -> Outcome(TRUE, t[this])
         IN  Assigned((t[this].typ \in Constructible => t[o].constructed) /\ c.ok,
                      [t EXCEPT ![this] = c.u,
                                ![o] = IF t[this].typ \in Constructible THEN MovedOut(@) ELSE @])
    ELSE Assigned(ns[this].typ \in Constructible => ns[o].constructed,
                  IF ns[this].typ \in Constructible
                  THEN [ns EXCEPT ![this].val = ns[o].val, ![this].entries = ns[o].entries,
                                  ![this].values = ns[o].values, ![o] = MovedOut(@)]
                  ELSE ns)

\* The strings given to the constructors and setters, the key of the entries,
\* and the largest number of elements a or b is given.
UnionTexts == { Bytes(<<"1">>), Bytes(<<"x">>) }
UnionKey == Bytes(<<"k">>)
MaxUnionElems == 1

\* An object without elements.
Flat(u) == u.entries = <<>> /\ u.values = <<>>

\* The member function gave x the outcome r.
In(ns, x, r) == Assigned(r.ok, [ns EXCEPT ![x] = r.u])

\* The call op is made on the object x; a failed assert aborts the program.
UnionActed(op, x, arg, r) ==
    /\ call' = [op |-> op, arg |-> <<x, arg>>, before |-> nodes, result |-> <<>>,
                error |-> "none", what |-> ""]
    /\ nodes' = IF r.ok THEN r.ns ELSE nodes
    /\ pc' = IF r.ok THEN "unioned" ELSE "abort"
    /\ UNCHANGED objRest

\* UniValue x(initialType), in the place of the x there was.
UnionConstructType ==
    /\ pc = "union"
    /\ \E x \in Objects, initialType \in VTypes :
          UnionActed("UniValue(VType)", x, initialType,
                     In(nodes, Addr(x), construct(Unconstructed(initialType))))

\* UniValue x(initialType, initialStr)
UnionConstructTypeStr ==
    /\ pc = "union"
    /\ \E x \in Objects, initialType \in VTypes, initialStr \in UnionTexts :
          UnionActed("UniValue(VType, string)", x, <<initialType, initialStr>>,
                     In(nodes, Addr(x), construct_val(Unconstructed(initialType), initialStr)))

\* UniValue x(val_) for a bool val_
UnionConstructBool ==
    /\ pc = "union"
    /\ \E x \in Objects, val_ \in BOOLEAN :
          UnionActed("UniValue(bool)", x, val_,
                     In(nodes, Addr(x),
                        Outcome(TRUE, Unconstructed(IF val_ THEN "VTRUE" ELSE "VFALSE"))))

\* x.setNull()
UnionSetNull ==
    /\ pc = "union"
    /\ \E x \in Objects :
          UnionActed("setNull", x, <<>>, In(nodes, Addr(x), Outcome(TRUE, destruct(nodes[Addr(x)]))))

\* x = val_ for a bool val_
UnionAssignBool ==
    /\ pc = "union"
    /\ \E x \in Objects, val_ \in BOOLEAN :
          UnionActed("operator=(bool)", x, val_,
                     In(nodes, Addr(x),
                        Outcome(TRUE, [destruct(nodes[Addr(x)]) EXCEPT
                                          !.typ = IF val_ THEN "VTRUE" ELSE "VFALSE"])))

\* x.setObject()
UnionSetObject ==
    /\ pc = "union"
    /\ \E x \in Objects :
          UnionActed("setObject", x, <<>>,
                     In(nodes, Addr(x), construct([destruct(nodes[Addr(x)]) EXCEPT !.typ = "VOBJ"])))

\* x.setArray()
UnionSetArray ==
    /\ pc = "union"
    /\ \E x \in Objects :
          UnionActed("setArray", x, <<>>,
                     In(nodes, Addr(x), construct([destruct(nodes[Addr(x)]) EXCEPT !.typ = "VARR"])))

\* x.setNumStr(val_)
UnionSetNumStr ==
    /\ pc = "union"
    /\ \E x \in Objects, val_ \in UnionTexts :
          LET optStr == validateAndStripNumStr(val_ \o <<0>>)
          IN  UnionActed("setNumStr", x, val_,
                         IF optStr.ok
                         THEN In(nodes, Addr(x),
                                 construct_val([destruct(nodes[Addr(x)]) EXCEPT !.typ = "VNUM"],
                                               optStr.str))
                         ELSE Assigned(TRUE, nodes))

\* x = 1: setInt64
UnionSetInt64 ==
    /\ pc = "union"
    /\ \E x \in Objects :
          LET n == construct([destruct(nodes[Addr(x)]) EXCEPT !.typ = "VNUM"])
          IN  UnionActed("operator=(int)", x, 1,
                         In(nodes, Addr(x), Outcome(n.ok, [n.u EXCEPT !.val = FormatInt(1)])))

\* x = val_ for a string val_
UnionAssignString ==
    /\ pc = "union"
    /\ \E x \in Objects, val_ \in UnionTexts :
          UnionActed("operator=(string)", x, val_,
                     In(nodes, Addr(x),
                        construct_val([destruct(nodes[Addr(x)]) EXCEPT !.typ = "VSTR"], val_)))

\* x.get_array().push_back(o): the new element is copy-constructed from o.
UnionPushBack ==
    /\ pc = "union"
    /\ \E x \in Objects, o \in Objects :
          LET e == UniValueCopy(nodes[Addr(o)])
          IN  /\ nodes[Addr(x)].typ = "VARR"
              /\ Len(nodes[Addr(x)].values) < MaxUnionElems
              /\ Flat(nodes[Addr(o)])
              /\ UnionActed("Array::push_back", x, o,
                            In(nodes, Addr(x),
                               Outcome(e.ok, [nodes[Addr(x)] EXCEPT !.values = Append(@, e.u)])))

\* x.get_obj().emplace_back(key, o)
UnionEmplaceBack ==
    /\ pc = "union"
    /\ \E x \in Objects, o \in Objects :
          LET e == UniValueCopy(nodes[Addr(o)])
          IN  /\ nodes[Addr(x)].typ = "VOBJ"
              /\ Len(nodes[Addr(x)].entries) < MaxUnionElems
              /\ Flat(nodes[Addr(o)])
              /\ UnionActed("Object::emplace_back", x, o,
                            In(nodes, Addr(x),
                               Outcome(e.ok, [nodes[Addr(x)] EXCEPT
                                                 !.entries = Append(@, <<UnionKey, e.u>>)])))

\* UniValue x(o), in the place of the x there was.
UnionCopyConstruct ==
    /\ pc = "union"
    /\ \E x \in Objects :
          UnionActed("UniValue(const UniValue&)", x, Other(x),
                     In(nodes, Addr(x), UniValueCopy(nodes[Addr(Other(x))])))

\* UniValue x(std::move(o))
UnionMoveConstruct ==
    /\ pc = "union"
    /\ \E x \in Objects :
          LET r == UniValueMove(nodes[Addr(Other(x))])
          IN  UnionActed("UniValue(UniValue&&)", x, Other(x),
                         Assigned(r.ok, [nodes EXCEPT ![Addr(x)] = r.u, ![Addr(Other(x))] = r.from]))

\* x = o, where o is the other object or x itself.
UnionCopyAssign ==
    /\ pc = "union"
    /\ \E x \in Objects, o \in Objects :
          UnionActed("operator=(const UniValue&)", x, o,
                     operatorAssignCopy(nodes, Addr(x), Addr(o)))

\* x = std::move(o), where o is the other object or x itself; a string or
\* vector move-assigned to itself is left as it was or empty.
UnionMoveAssign ==
    /\ pc = "union"
    /\ \E x \in Objects, o \in Objects, emptied \in BOOLEAN :
          LET r == operatorAssignMove(nodes, Addr(x), Addr(o))
          IN  /\ ~emptied => x = o
              /\ UnionActed("operator=(UniValue&&)", x, o,
                            IF emptied \/ ~nodes[Addr(x)].constructed
                            THEN r ELSE Assigned(r.ok, nodes))

\* The call has returned and the program goes on to its next call.
UnionReturn ==
    /\ pc = "unioned"
    /\ pc' = "union"
    /\ call' = NoCall
    /\ UNCHANGED nodes
    /\ UNCHANGED objRest

NextUnion ==
    \/ UnionReturn
    \/ UnionConstructType \/ UnionConstructTypeStr \/ UnionConstructBool
    \/ UnionSetNull \/ UnionAssignBool \/ UnionSetObject \/ UnionSetArray
    \/ UnionSetNumStr \/ UnionSetInt64 \/ UnionAssignString
    \/ UnionPushBack \/ UnionEmplaceBack
    \/ UnionCopyConstruct \/ UnionMoveConstruct \/ UnionCopyAssign \/ UnionMoveAssign

\* UniValue a, b;
InitUnion ==
    /\ raw = <<0>>
    /\ size = 0
    /\ buffer = 1
    /\ lexed = NoToken
    /\ tokenVal = <<>>
    /\ tok = "JTOK_NONE"
    /\ last_tok = "JTOK_NONE"
    /\ expectMask = {}
    /\ stack = <<>>
    /\ nodes = <<construct(Unconstructed("VNULL")).u, construct(Unconstructed("VNULL")).u>>
    /\ pc = "union"
    /\ ret = NULLPTR
    /\ errpos = NULLPTR
    /\ strOk = FALSE
    /\ strErrpos = NPOS
    /\ built = NoValue
    /\ call = NoCall
    /\ prettyIndent = 0
    /\ out = <<>>
    /\ writer = NewFilter(<<>>)

SpecUnion == InitUnion /\ [][NextUnion]_vars

-----------------------------------------------------------------------------
(* C38: self-assignment *)

\* The call op has just been made on a or b.
UnionDid(op) == pc = "unioned" /\ call.op = op

\* C38: copy-assigning an object to itself (v = v) leaves its type and its
\* contents unchanged, for every type.
C38_SelfAssignKeeps ==
    (UnionDid("operator=(const UniValue&)") /\ call.arg[1] = call.arg[2]) =>
        nodes = call.before

-----------------------------------------------------------------------------
(* C40: the constructed flag *)

\* constructed is true exactly for the types that live in a member of u, in
\* the object and in its elements.
RECURSIVE FlagMatchesType(_)
FlagMatchesType(u) ==
    /\ u.constructed <=> u.typ \in Constructible
    /\ \A k \in 1..Len(u.values) : FlagMatchesType(u.values[k])
    /\ \A k \in 1..Len(u.entries) : FlagMatchesType(u.entries[k][2])

\* C40: after every public operation constructed is true exactly when the type is
\* Number, String, Object or Array and false for Null, false and true, and no
\* assert(!constructed) or assert(o.constructed) fails.
C40_ConstructedMatchesType ==
    /\ pc # "abort"
    /\ \A x \in Objects : FlagMatchesType(nodes[Addr(x)])

\* a, which was true, has been assigned b, an array holding a string.
C40_Witness ==
    /\ UnionDid("operator=(const UniValue&)")
    /\ call.arg = <<"a", "b">>
    /\ call.before[1].typ = "VTRUE"
    /\ nodes[1].typ = "VARR"
    /\ nodes[1].constructed
    /\ Len(nodes[1].values) = 1
    /\ nodes[1].values[1].typ = "VSTR"
    /\ nodes[1].values[1].constructed
    /\ nodes[2] = nodes[1]

-----------------------------------------------------------------------------
(* C39: the integer getters and fractions, exponents *)

\* The text has a fraction or an exponent part.
HasFractionOrExponent(t) == \E i \in 1..Len(t) : t[i] \in {C("."), C("e"), C("E")}

\* One digit or more.
DigitsOnly(t) == t # <<>> /\ \A i \in 1..Len(t) : t[i] \in 48..57

\* The text is digits after one of the given signs, or digits alone.
SignAndDigits(t, signs) == DigitsOnly(t) \/ (t # <<>> /\ t[1] \in signs /\ DigitsOnly(Tail(t)))

\* get_int or get_int64 has just been called on a Number.
IntegerGetterOnNumber ==
    /\ pc = "api"
    /\ call.op \in {"get_int", "get_int64"}
    /\ call.before.typ = "VNUM"

\* The getters fail on a fraction or exponent and succeed only on digits after
\* one of the given signs.
IntegerGettersWant(signs) ==
    IntegerGetterOnNumber =>
        /\ HasFractionOrExponent(call.before.val) =>
              call.error = "runtime_error" /\ call.what = "JSON integer out of range"
        /\ call.error = "none" => SignAndDigits(call.before.val, signs)

=============================================================================
